---------------------------- MODULE Spec2Model ----------------------------
(***************************************************************************)
(* Citation recognition and passage-window extraction of the patristics    *)
(* builder (src/src/parser.py, src/src/parse_thml.py, src/src/bible_data.py*)
(* and src/src/db.py).                                                     *)
(*                                                                         *)
(* A text is a sequence of one-character strings.  Offsets are the 0-based *)
(* offsets of the Python source; the character at offset i of t is t[i+1]. *)
(***************************************************************************)
EXTENDS Integers, Sequences, FiniteSets, TLC

VARIABLES
    text,             \* the document text handed to the operation
    citation_offset,  \* offset of the citation in text
    pc,               \* position of the run: "start" or "done"
    bounds,           \* result of _find_paragraph_bounds
    passage,          \* locals and result of extract_passage_offsets
    path,             \* "plain" (parser.py) or "thml" (parse_thml.py)
    raw_book,         \* the raw book spelling handed to a resolver
    book,             \* the book entry the resolver returned
    payload,          \* the value of a scripRef's parsed attribute
    matches,          \* the matches CITATION_RE.finditer yielded to parse_file
    registry,         \* the module globals ABBREV_LIST, ABBREV_LOOKUP, _NAME_LOOKUP
    arg,              \* the argument handed to a function called on its own
    returned,         \* what that function returned
    tree,             \* the element tree of a ThML document
    builder,          \* the _TextBuilder: _parts, _offset, scripref_hits
    stack,            \* the frames of the calls of _TextBuilder.walk in progress
    files,            \* the content of every source file, by path
    companions,       \* the clean-text files written beside ThML sources
    store,            \* the database as committed
    conn,             \* the database as the open connection sees it
    run,              \* the run of main in progress
    latest,           \* per filename, the rows and the content of its latest parse that wrote
    started,          \* how many runs of main have started
    rows              \* the citation records an operation produced

vars == <<text, citation_offset, pc, bounds, passage, path, raw_book, book, payload, matches, registry,
         arg, returned, tree, builder, stack,
         files, companions, store, conn, run, latest, started, rows>>

\* the variables of the resolvers and of the record-producing operations
resolve_vars == <<path, raw_book, book, registry>>
record_vars == <<payload, matches, rows>>
passage_vars == <<citation_offset, bounds, passage>>
call_vars == <<arg, returned>>
walk_vars == <<tree, builder, stack>>
store_vars == <<files, companions, store, conn, run, latest, started>>

None == [none |-> TRUE]

Min(a, b) == IF a <= b THEN a ELSE b
Max(a, b) == IF a >= b THEN a ELSE b

(***************************************************************************)
(* Character classes of Python's re module for the characters the model    *)
(* uses: \s, \w, [A-Z], and str.lower().                                   *)
(***************************************************************************)
UpperLetters ==
    {"A","B","C","D","E","F","G","H","I","J","K","L","M",
     "N","O","P","Q","R","S","T","U","V","W","X","Y","Z"}
LowerLetters ==
    {"a","b","c","d","e","f","g","h","i","j","k","l","m",
     "n","o","p","q","r","s","t","u","v","w","x","y","z"}
Digits == {"0","1","2","3","4","5","6","7","8","9"}
IsSpace(c) == c \in {" ", "\t", "\n", "\r", "\f"}
IsWord(c) == c \in UpperLetters \cup LowerLetters \cup Digits \cup {"_"}

LowerOf ==
    [c \in UpperLetters |->
        CASE c = "A" -> "a" [] c = "B" -> "b" [] c = "C" -> "c" [] c = "D" -> "d"
          [] c = "E" -> "e" [] c = "F" -> "f" [] c = "G" -> "g" [] c = "H" -> "h"
          [] c = "I" -> "i" [] c = "J" -> "j" [] c = "K" -> "k" [] c = "L" -> "l"
          [] c = "M" -> "m" [] c = "N" -> "n" [] c = "O" -> "o" [] c = "P" -> "p"
          [] c = "Q" -> "q" [] c = "R" -> "r" [] c = "S" -> "s" [] c = "T" -> "t"
          [] c = "U" -> "u" [] c = "V" -> "v" [] c = "W" -> "w" [] c = "X" -> "x"
          [] c = "Y" -> "y" [] c = "Z" -> "z"]
LowerChar(c) == IF c \in UpperLetters THEN LowerOf[c] ELSE c
\* str.lower()
Lower(s) == [i \in 1..Len(s) |-> LowerChar(s[i])]

\* the Python slice t[a:b] for 0 <= a and b <= len(t)
Slice(t, a, b) == IF b <= a THEN << >> ELSE SubSeq(t, a + 1, b)

\* whether needle occurs in hay at offset i
OccursAt(hay, needle, i) ==
    /\ i >= 0
    /\ i + Len(needle) <= Len(hay)
    /\ \A k \in 1..Len(needle) : hay[i + k] = needle[k]

\* the least and the greatest element of a non-empty set of integers
MinOf(S) == CHOOSE x \in S : \A y \in S : x <= y
MaxOf(S) == CHOOSE x \in S : \A y \in S : x >= y

\* str.find(needle, start): the first offset >= start where needle occurs, or -1
Find(hay, needle, start) ==
    LET S == {i \in start..(Len(hay) - Len(needle)) : OccursAt(hay, needle, i)}
    IN  IF S = {} THEN -1 ELSE MinOf(S)

\* str.rfind(needle): the last offset where needle occurs, or -1
RFind(hay, needle) ==
    LET S == {i \in 0..(Len(hay) - Len(needle)) : OccursAt(hay, needle, i)}
    IN  IF S = {} THEN -1 ELSE MaxOf(S)

RECURSIVE SkipWhile(_, _, _, _)
\* the first offset j >= i, j <= endpos, whose character is not in class
SkipWhile(t, i, endpos, class) ==
    IF i < endpos /\ t[i + 1] \in class
    THEN SkipWhile(t, i + 1, endpos, class)
    ELSE i

RECURSIVE LStripFrom(_, _)
LStripFrom(t, i) ==
    IF i < Len(t) /\ IsSpace(t[i + 1]) THEN LStripFrom(t, i + 1) ELSE i
RECURSIVE RStripTo(_, _)
RStripTo(t, j) ==
    IF j > 0 /\ IsSpace(t[j]) THEN RStripTo(t, j - 1) ELSE j
\* str.rstrip() and str.strip()
RStrip(t) == Slice(t, 0, RStripTo(t, Len(t)))
Strip(t) == Slice(t, LStripFrom(t, 0), RStripTo(t, Len(t)))

(***************************************************************************)
(* _find_paragraph_bounds, parser.py 190-208.                              *)
(***************************************************************************)
\* the regex \n[ \t]*\n matched at offset i of t[0:endpos]: the offset after
\* the match, or -1
BlankLineMatchEnd(t, i, endpos) ==
    IF i < endpos /\ t[i + 1] = "\n"
    THEN LET j == SkipWhile(t, i + 1, endpos, {" ", "\t"})
         IN  IF j < endpos /\ t[j + 1] = "\n" THEN j + 1 ELSE -1
    ELSE -1

\* blank_line.search(text, pos, endpos): m.start() of the first match, or -1
BlankLineSearch(t, pos, endpos) ==
    LET S == {i \in pos..(endpos - 1) : BlankLineMatchEnd(t, i, endpos) # -1}
    IN  IF S = {} THEN -1 ELSE MinOf(S)

RECURSIVE LastBlankLineEnd(_, _, _, _)
\* the loop over blank_line.finditer(text, 0, char_offset): m.end() of the
\* last of the non-overlapping matches, scanning from pos; acc if none
LastBlankLineEnd(t, pos, endpos, acc) ==
    LET m == BlankLineSearch(t, pos, endpos)
    IN  IF m = -1 THEN acc
        ELSE LET e == BlankLineMatchEnd(t, m, endpos)
             IN  LastBlankLineEnd(t, e, endpos, e)

find_paragraph_bounds(t, char_offset) ==
    LET para_start == LastBlankLineEnd(t, 0, char_offset, 0)
        m == BlankLineSearch(t, char_offset, Len(t))
        para_end == IF m # -1 THEN m ELSE Len(t)
    IN  [para_start |-> para_start, para_end |-> para_end]

(***************************************************************************)
(* split_sentences, parser.py 42-93.                                       *)
(***************************************************************************)
ABBREV_ENDINGS ==
    {<<"m","r">>, <<"m","r","s">>, <<"d","r">>, <<"p","r","o","f">>, <<"r","e","v">>,
     <<"s","t">>, <<"s","t","s">>, <<"v","s">>, <<"e","t","c">>, <<"c","f">>,
     <<"v","i","z">>, <<"v","o","l">>, <<"v","o","l","s">>, <<"c","h">>,
     <<"c","h","a","p">>, <<"n","o">>, <<"f","i","g">>, <<"m","s">>, <<"m","s","s">>,
     <<"o","p">>, <<"c","i","t">>, <<"p","p">>, <<"g","e","n">>, <<"e","x">>,
     <<"l","e","v">>, <<"n","u","m">>, <<"d","e","u","t">>, <<"j","o","s","h">>,
     <<"j","u","d","g">>, <<"p","s","a">>, <<"p","s">>, <<"p","r","o","v">>,
     <<"e","c","c","l">>, <<"i","s","a">>, <<"j","e","r">>, <<"l","a","m">>,
     <<"e","z","e","k">>, <<"d","a","n">>, <<"h","o","s">>, <<"m","a","t","t">>,
     <<"m","a","r">>, <<"l","u","k">>, <<"j","o","h">>, <<"r","o","m">>,
     <<"c","o","r">>, <<"g","a","l">>, <<"e","p","h">>, <<"p","h","i","l">>,
     <<"c","o","l">>, <<"t","h","e","s","s">>, <<"t","i","m">>, <<"t","i","t">>,
     <<"h","e","b">>, <<"j","a","s">>, <<"j","a","m">>, <<"p","e","t">>,
     <<"r","e","v">>, <<"i">>, <<"i","i">>, <<"i","i","i">>}

SpaceChars == {" ", "\t", "\n", "\r", "\f"}
SentPunct == {".", "!", "?"}
SentClosers == {"\"", "'", ")"}
SentOpeners == UpperLetters \cup {"\"", "(", "["}

\* _SENT_SPLIT_RE, ([.!?]["')]*)\s+(?=[A-Z"(\[]), matched at offset i:
\* <<end of group 1, end of the match>>, or << >> when it does not match
SentSplitMatch(t, i) ==
    IF i < Len(t) /\ t[i + 1] \in SentPunct
    THEN LET j == SkipWhile(t, i + 1, Len(t), SentClosers)
             k == SkipWhile(t, j, Len(t), SpaceChars)
         IN  IF k > j /\ k < Len(t) /\ t[k + 1] \in SentOpeners
             THEN <<j, k>> ELSE << >>
    ELSE << >>

RECURSIVE SentSplitParts(_, _, _)
\* _SENT_SPLIT_RE.split(text): [text, punct, text, punct, ..., text]; the
\* whitespace each match consumed is in none of the parts
SentSplitParts(t, pos, last) ==
    LET S == {i \in pos..(Len(t) - 1) : SentSplitMatch(t, i) # << >>}
    IN  IF S = {} THEN << Slice(t, last, Len(t)) >>
        ELSE LET at == MinOf(S)
                 m == SentSplitMatch(t, at)
             IN  << Slice(t, last, at), Slice(t, at, m[1]) >>
                     \o SentSplitParts(t, m[2], m[2])

RECURSIVE WordStart(_, _)
WordStart(b, j) == IF j > 0 /\ IsWord(b[j]) THEN WordStart(b, j - 1) ELSE j
RECURSIVE SkipBack(_, _, _)
SkipBack(b, j, class) ==
    IF j > 0 /\ b[j] \in class THEN SkipBack(b, j - 1, class) ELSE j

\* re.search(r'(\w+)\s*[.!?]["\'\)]*$', buf.rstrip()), group 1 lower-cased,
\* "" when there is no match
LastWord(buf) ==
    LET b == RStrip(buf)
        p == SkipBack(b, Len(b), SentClosers)      \* b[p] must be the punctuation
    IN  IF p = 0 \/ b[p] \notin SentPunct THEN << >>
        ELSE LET w == SkipBack(b, p - 1, SpaceChars)   \* b[w] ends the word
                 s == WordStart(b, w)
             IN  Lower(Slice(b, s, w))

RECURSIVE SplitLoop(_, _, _, _)
\* the while loop of split_sentences (lines 62-81); i is the 0-based index
SplitLoop(parts, i, buf, sentences) ==
    IF i >= Len(parts)
    THEN IF Strip(buf) # << >> THEN Append(sentences, Strip(buf)) ELSE sentences
    ELSE LET chunk == parts[i + 1]
             punct == IF i + 1 < Len(parts) THEN parts[i + 2] ELSE << >>
             buf2 == buf \o chunk \o punct
             last_word == LastWord(buf2)
         IN  IF punct # << >> /\ last_word \notin ABBREV_ENDINGS
             THEN SplitLoop(parts, i + 2, << >>, Append(sentences, Strip(buf2)))
             ELSE SplitLoop(parts, i + 2, buf2, sentences)

SHORT_FRAGMENT == 10

RECURSIVE MergeShort_keeps_fragments(_, _, _)
\* mutant of MergeShort: a short fragment stays a sentence of its own
MergeShort_keeps_fragments(sentences, i, result) ==
    IF i > Len(sentences) THEN result
    ELSE IF Strip(sentences[i]) = << >>
    THEN MergeShort_keeps_fragments(sentences, i + 1, result)
    ELSE MergeShort_keeps_fragments(sentences, i + 1, Append(result, Strip(sentences[i])))

RECURSIVE MergeShort(_, _, _)
\* the re-join loop of split_sentences (lines 84-93)
MergeShort(sentences, i, result) ==
    IF i > Len(sentences) THEN result
    ELSE LET sent == Strip(sentences[i])
         IN  IF sent = << >> THEN MergeShort(sentences, i + 1, result)
             ELSE IF result # << >> /\ Len(sent) < SHORT_FRAGMENT
             THEN MergeShort(sentences, i + 1,
                     [result EXCEPT ![Len(result)] = @ \o <<" ">> \o sent])
             ELSE MergeShort(sentences, i + 1, Append(result, sent))

split_sentences(t) ==
    MergeShort(SplitLoop(SentSplitParts(t, 0, 0), 0, << >>, << >>), 1, << >>)

(***************************************************************************)
(* extract_passage_offsets, parser.py 211-264.                             *)
(***************************************************************************)
MAX_SENTENCES == 10

\* mutant of returns_whole_paragraph: the comparison of line 224 made strict
returns_whole_paragraph_strict(n) == n < MAX_SENTENCES

\* line 224: whether the paragraph is returned whole
returns_whole_paragraph(n) == n <= MAX_SENTENCES

\* mutant of window_indices: line 244, which pulls the window back inside the
\* paragraph, is left out
window_indices_not_pulled_back(n, cite_sent_idx) ==
    LET half == MAX_SENTENCES \div 2
        start_idx == Max(0, cite_sent_idx - half)
        end_idx == Min(n, start_idx + MAX_SENTENCES)
    IN  [start_idx |-> start_idx, end_idx |-> end_idx]

\* lines 241-244: the window of MAX_SENTENCES sentences around cite_sent_idx
window_indices(n, cite_sent_idx) ==
    LET half == MAX_SENTENCES \div 2
        start_idx0 == Max(0, cite_sent_idx - half)
        end_idx == Min(n, start_idx0 + MAX_SENTENCES)
        start_idx == Max(0, end_idx - MAX_SENTENCES)
    IN  [start_idx |-> start_idx, end_idx |-> end_idx]

RECURSIVE LocateLoop(_, _, _, _, _, _)
\* the for loop of lines 229-238: the sentence index holding the citation,
\* and for each sentence the position the scan gave it and whether
\* para_text.find located it
LocateLoop(para_text, sentences, i, cite_rel, cursor, acc) ==
    IF i > Len(sentences) THEN acc
    ELSE LET sent == sentences[i]
             f == Find(para_text, sent, cursor)
             pos == IF f = -1 THEN cursor ELSE f
             hit == pos <= cite_rel /\ cite_rel <= pos + Len(sent)
         IN  LocateLoop(para_text, sentences, i + 1, cite_rel, pos + Len(sent),
                 [cite_sent_idx |-> IF hit THEN i - 1 ELSE acc.cite_sent_idx,
                  positions |-> Append(acc.positions, pos),
                  found |-> Append(acc.found, f # -1)])

\* lines 254-262: the offsets of the window within the paragraph, given what
\* find and rfind returned
WindowStartRel(fs) == IF fs = -1 THEN 0 ELSE fs
WindowEndRel(ls, last_len, para_len) == IF ls # -1 THEN ls + last_len ELSE para_len

\* lines 246-264, given the window win
WindowSpan(para_start, para_text, sentences, base, loc, win) ==
    base @@ [windowed |-> TRUE,
             cite_sent_idx |-> loc.cite_sent_idx,
             positions |-> loc.positions, found |-> loc.found,
             start_idx |-> win.start_idx, end_idx |-> win.end_idx,
             start |-> para_start
                       + WindowStartRel(Find(para_text, sentences[win.start_idx + 1], 0)),
             end |-> para_start
                     + WindowEndRel(RFind(para_text, sentences[win.end_idx]),
                                    Len(sentences[win.end_idx]), Len(para_text))]

\* lines 240-264, given the result loc of the locating loop
WindowedLocals(para_start, para_text, sentences, base, loc) ==
    WindowSpan(para_start, para_text, sentences, base, loc,
               window_indices(base.n, loc.cite_sent_idx))

\* lines 222-264, given the sentences of the paragraph
PassageOfSentences(cite_off, pb, para_text, sentences) ==
    LET base == [para_start |-> pb.para_start, para_end |-> pb.para_end,
                 n |-> Len(sentences),
                 lengths |-> [i \in 1..Len(sentences) |-> Len(sentences[i])]]
    IN  IF returns_whole_paragraph(Len(sentences))
        THEN base @@ [windowed |-> FALSE, start |-> pb.para_start, end |-> pb.para_end]
        ELSE WindowedLocals(pb.para_start, para_text, sentences, base,
                 LocateLoop(para_text, sentences, 1, cite_off - pb.para_start, 0,
                            [cite_sent_idx |-> 0, positions |-> << >>, found |-> << >>]))

\* lines 220-264, given the paragraph bounds pb
PassageOfBounds(t, cite_off, pb, para_text) ==
    PassageOfSentences(cite_off, pb, para_text, split_sentences(para_text))

\* extract_passage_offsets with its locals; start and end are the pair returned
extract_passage_locals(t, cite_off) ==
    LET pb == find_paragraph_bounds(t, cite_off)
    IN  PassageOfBounds(t, cite_off, pb, Slice(t, pb.para_start, pb.para_end))

\* the pair extract_passage_offsets returns
ReturnedSpan(r) == <<r.start, r.end>>

extract_passage_offsets(t, cite_off) ==
    ReturnedSpan(extract_passage_locals(t, cite_off))

(***************************************************************************)
(* The book registry, bible_data.py 19-214.                                *)
(***************************************************************************)
BOOKS == <<
    [name |-> <<"G","e","n","e","s","i","s">>,
     slug |-> <<"g","e","n","e","s","i","s">>,
     chapters |-> 50,
     abbrevs |-> << <<"g","e","n">>, <<"g","n">> >>],
    [name |-> <<"E","x","o","d","u","s">>,
     slug |-> <<"e","x","o","d","u","s">>,
     chapters |-> 40,
     abbrevs |-> << <<"e","x","o","d">>, <<"e","x","o">>, <<"e","x","o","d">> >>],
    [name |-> <<"L","e","v","i","t","i","c","u","s">>,
     slug |-> <<"l","e","v","i","t","i","c","u","s">>,
     chapters |-> 27,
     abbrevs |-> << <<"l","e","v">>, <<"l","v">> >>],
    [name |-> <<"N","u","m","b","e","r","s">>,
     slug |-> <<"n","u","m","b","e","r","s">>,
     chapters |-> 36,
     abbrevs |-> << <<"n","u","m">>, <<"n","u","m","b">> >>],
    [name |-> <<"D","e","u","t","e","r","o","n","o","m","y">>,
     slug |-> <<"d","e","u","t","e","r","o","n","o","m","y">>,
     chapters |-> 34,
     abbrevs |-> << <<"d","e","u","t">>, <<"d","e","u">>, <<"d","t">> >>],
    [name |-> <<"J","o","s","h","u","a">>,
     slug |-> <<"j","o","s","h","u","a">>,
     chapters |-> 24,
     abbrevs |-> << <<"j","o","s","h">>, <<"j","o","s">> >>],
    [name |-> <<"J","u","d","g","e","s">>,
     slug |-> <<"j","u","d","g","e","s">>,
     chapters |-> 21,
     abbrevs |-> << <<"j","u","d","g">>, <<"j","d","g">>, <<"j","d","g","s">> >>],
    [name |-> <<"R","u","t","h">>,
     slug |-> <<"r","u","t","h">>,
     chapters |-> 4,
     abbrevs |-> << <<"r","t","h">> >>],
    [name |-> <<"1"," ","S","a","m","u","e","l">>,
     slug |-> <<"1","-","s","a","m","u","e","l">>,
     chapters |-> 31,
     abbrevs |-> << <<"1"," ","s","a","m">>, <<"1","s","a","m">>, <<"1"," ","s","a">>,
                 <<"1","s","a">>, <<"i"," ","s","a","m">>, <<"i"," ","s","a">> >>],
    [name |-> <<"2"," ","S","a","m","u","e","l">>,
     slug |-> <<"2","-","s","a","m","u","e","l">>,
     chapters |-> 24,
     abbrevs |-> << <<"2"," ","s","a","m">>, <<"2","s","a","m">>, <<"2"," ","s","a">>,
                 <<"2","s","a">>, <<"i","i"," ","s","a","m">>, <<"i","i"," ","s","a">> >>],
    [name |-> <<"1"," ","K","i","n","g","s">>,
     slug |-> <<"1","-","k","i","n","g","s">>,
     chapters |-> 22,
     abbrevs |-> << <<"1"," ","k","g","s">>, <<"1","k","g","s">>, <<"1"," ","k","i">>,
                 <<"1","k","i">>, <<"i"," ","k","g","s">>, <<"i"," ","k","i">> >>],
    [name |-> <<"2"," ","K","i","n","g","s">>,
     slug |-> <<"2","-","k","i","n","g","s">>,
     chapters |-> 25,
     abbrevs |-> << <<"2"," ","k","g","s">>, <<"2","k","g","s">>, <<"2"," ","k","i">>,
                 <<"2","k","i">>, <<"i","i"," ","k","g","s">>, <<"i","i"," ","k","i">> >>],
    [name |-> <<"1"," ","C","h","r","o","n","i","c","l","e","s">>,
     slug |-> <<"1","-","c","h","r","o","n","i","c","l","e","s">>,
     chapters |-> 29,
     abbrevs |-> << <<"1"," ","c","h","r">>, <<"1","c","h","r">>,
                 <<"1"," ","c","h","r","o","n">>, <<"1","c","h","r","o","n">>,
                 <<"i"," ","c","h","r">>, <<"i"," ","c","h","r","o","n">> >>],
    [name |-> <<"2"," ","C","h","r","o","n","i","c","l","e","s">>,
     slug |-> <<"2","-","c","h","r","o","n","i","c","l","e","s">>,
     chapters |-> 36,
     abbrevs |-> << <<"2"," ","c","h","r">>, <<"2","c","h","r">>,
                 <<"2"," ","c","h","r","o","n">>, <<"2","c","h","r","o","n">>,
                 <<"i","i"," ","c","h","r">>, <<"i","i"," ","c","h","r","o","n">> >>],
    [name |-> <<"E","z","r","a">>,
     slug |-> <<"e","z","r","a">>,
     chapters |-> 10,
     abbrevs |-> << <<"e","z","r","a">>, <<"e","z","r">> >>],
    [name |-> <<"N","e","h","e","m","i","a","h">>,
     slug |-> <<"n","e","h","e","m","i","a","h">>,
     chapters |-> 13,
     abbrevs |-> << <<"n","e","h">> >>],
    [name |-> <<"E","s","t","h","e","r">>,
     slug |-> <<"e","s","t","h","e","r">>,
     chapters |-> 10,
     abbrevs |-> << <<"e","s","t","h">>, <<"e","s","t">> >>],
    [name |-> <<"J","o","b">>,
     slug |-> <<"j","o","b">>,
     chapters |-> 42,
     abbrevs |-> << <<"j","o","b">> >>],
    [name |-> <<"P","s","a","l","m","s">>,
     slug |-> <<"p","s","a","l","m","s">>,
     chapters |-> 150,
     abbrevs |-> << <<"p","s">>, <<"p","s","s">>, <<"p","s","a">>, <<"p","s","a","l","m">>,
                 <<"p","s","a","l","m","s">> >>],
    [name |-> <<"P","r","o","v","e","r","b","s">>,
     slug |-> <<"p","r","o","v","e","r","b","s">>,
     chapters |-> 31,
     abbrevs |-> << <<"p","r","o","v">>, <<"p","r","o">>, <<"p","r","v">> >>],
    [name |-> <<"E","c","c","l","e","s","i","a","s","t","e","s">>,
     slug |-> <<"e","c","c","l","e","s","i","a","s","t","e","s">>,
     chapters |-> 12,
     abbrevs |-> << <<"e","c","c","l">>, <<"e","c","c","l","e","s">>, <<"e","c","c">>,
                 <<"q","o","h">>, <<"q","o","h","e","l","e","t","h">> >>],
    [name |-> <<"S","o","n","g"," ","o","f"," ","S","o","l","o","m","o","n">>,
     slug |-> <<"s","o","n","g","-","o","f","-","s","o","l","o","m","o","n">>,
     chapters |-> 8,
     abbrevs |-> << <<"s","o","n","g"," ","o","f"," ","s","o","l">>,
                 <<"s","o","n","g"," ","o","f"," ","s","o","n","g","s">>,
                 <<"c","a","n","t","i","c","l","e","s">>, <<"c","a","n","t">> >>],
    [name |-> <<"I","s","a","i","a","h">>,
     slug |-> <<"i","s","a","i","a","h">>,
     chapters |-> 66,
     abbrevs |-> << <<"i","s","a">> >>],
    [name |-> <<"J","e","r","e","m","i","a","h">>,
     slug |-> <<"j","e","r","e","m","i","a","h">>,
     chapters |-> 52,
     abbrevs |-> << <<"j","e","r">>, <<"j","r">> >>],
    [name |-> <<"L","a","m","e","n","t","a","t","i","o","n","s">>,
     slug |-> <<"l","a","m","e","n","t","a","t","i","o","n","s">>,
     chapters |-> 5,
     abbrevs |-> << <<"l","a","m">> >>],
    [name |-> <<"E","z","e","k","i","e","l">>,
     slug |-> <<"e","z","e","k","i","e","l">>,
     chapters |-> 48,
     abbrevs |-> << <<"e","z","e","k">>, <<"e","z","k">> >>],
    [name |-> <<"D","a","n","i","e","l">>,
     slug |-> <<"d","a","n","i","e","l">>,
     chapters |-> 12,
     abbrevs |-> << <<"d","a","n">>, <<"d","n">> >>],
    [name |-> <<"H","o","s","e","a">>,
     slug |-> <<"h","o","s","e","a">>,
     chapters |-> 14,
     abbrevs |-> << <<"h","o","s">> >>],
    [name |-> <<"J","o","e","l">>,
     slug |-> <<"j","o","e","l">>,
     chapters |-> 3,
     abbrevs |-> << <<"j","o","e","l">> >>],
    [name |-> <<"A","m","o","s">>,
     slug |-> <<"a","m","o","s">>,
     chapters |-> 9,
     abbrevs |-> << <<"a","m","o","s">>, <<"a","m","o">> >>],
    [name |-> <<"O","b","a","d","i","a","h">>,
     slug |-> <<"o","b","a","d","i","a","h">>,
     chapters |-> 1,
     abbrevs |-> << <<"o","b","a","d">>, <<"o","b","a">> >>],
    [name |-> <<"J","o","n","a","h">>,
     slug |-> <<"j","o","n","a","h">>,
     chapters |-> 4,
     abbrevs |-> << <<"j","o","n","a","h">>, <<"j","o","n">>, <<"j","n","h">> >>],
    [name |-> <<"M","i","c","a","h">>,
     slug |-> <<"m","i","c","a","h">>,
     chapters |-> 7,
     abbrevs |-> << <<"m","i","c">> >>],
    [name |-> <<"N","a","h","u","m">>,
     slug |-> <<"n","a","h","u","m">>,
     chapters |-> 3,
     abbrevs |-> << <<"n","a","h">> >>],
    [name |-> <<"H","a","b","a","k","k","u","k">>,
     slug |-> <<"h","a","b","a","k","k","u","k">>,
     chapters |-> 3,
     abbrevs |-> << <<"h","a","b">> >>],
    [name |-> <<"Z","e","p","h","a","n","i","a","h">>,
     slug |-> <<"z","e","p","h","a","n","i","a","h">>,
     chapters |-> 3,
     abbrevs |-> << <<"z","e","p","h">>, <<"z","e","p">> >>],
    [name |-> <<"H","a","g","g","a","i">>,
     slug |-> <<"h","a","g","g","a","i">>,
     chapters |-> 2,
     abbrevs |-> << <<"h","a","g">> >>],
    [name |-> <<"Z","e","c","h","a","r","i","a","h">>,
     slug |-> <<"z","e","c","h","a","r","i","a","h">>,
     chapters |-> 14,
     abbrevs |-> << <<"z","e","c","h">>, <<"z","e","c">> >>],
    [name |-> <<"M","a","l","a","c","h","i">>,
     slug |-> <<"m","a","l","a","c","h","i">>,
     chapters |-> 4,
     abbrevs |-> << <<"m","a","l">> >>],
    [name |-> <<"T","o","b","i","t">>,
     slug |-> <<"t","o","b","i","t">>,
     chapters |-> 14,
     abbrevs |-> << <<"t","o","b">>, <<"t","o","b","i","t">> >>],
    [name |-> <<"J","u","d","i","t","h">>,
     slug |-> <<"j","u","d","i","t","h">>,
     chapters |-> 16,
     abbrevs |-> << <<"j","d","t">>, <<"j","u","d","i","t","h">> >>],
    [name |-> <<"1"," ","M","a","c","c","a","b","e","e","s">>,
     slug |-> <<"1","-","m","a","c","c","a","b","e","e","s">>,
     chapters |-> 16,
     abbrevs |-> << <<"1"," ","m","a","c","c">>, <<"1","m","a","c","c">>,
                 <<"1"," ","m","a","c">>, <<"1","m","a","c">>, <<"i"," ","m","a","c","c">>,
                 <<"i"," ","m","a","c">>, <<"1"," ","m">> >>],
    [name |-> <<"2"," ","M","a","c","c","a","b","e","e","s">>,
     slug |-> <<"2","-","m","a","c","c","a","b","e","e","s">>,
     chapters |-> 15,
     abbrevs |-> << <<"2"," ","m","a","c","c">>, <<"2","m","a","c","c">>,
                 <<"2"," ","m","a","c">>, <<"2","m","a","c">>,
                 <<"i","i"," ","m","a","c","c">>, <<"i","i"," ","m","a","c">> >>],
    [name |-> <<"3"," ","M","a","c","c","a","b","e","e","s">>,
     slug |-> <<"3","-","m","a","c","c","a","b","e","e","s">>,
     chapters |-> 7,
     abbrevs |-> << <<"3"," ","m","a","c","c">>, <<"3","m","a","c","c">>,
                 <<"3"," ","m","a","c">>, <<"3","m","a","c">>,
                 <<"i","i","i"," ","m","a","c","c">>, <<"i","i","i"," ","m","a","c">> >>],
    [name |-> <<"4"," ","M","a","c","c","a","b","e","e","s">>,
     slug |-> <<"4","-","m","a","c","c","a","b","e","e","s">>,
     chapters |-> 18,
     abbrevs |-> << <<"4"," ","m","a","c","c">>, <<"4","m","a","c","c">>,
                 <<"4"," ","m","a","c">>, <<"4","m","a","c">>,
                 <<"i","v"," ","m","a","c","c">>, <<"i","v"," ","m","a","c">> >>],
    [name |-> <<"W","i","s","d","o","m"," ","o","f"," ","S","o","l","o","m","o","n">>,
     slug |-> <<"w","i","s","d","o","m">>,
     chapters |-> 19,
     abbrevs |-> << <<"w","i","s">>, <<"w","i","s","d">>,
                 <<"w","i","s","d","o","m"," ","o","f"," ","s","o","l">>,
                 <<"w","i","s","d","o","m">> >>],
    [name |-> <<"S","i","r","a","c","h">>,
     slug |-> <<"s","i","r","a","c","h">>,
     chapters |-> 51,
     abbrevs |-> << <<"s","i","r">>, <<"s","i","r","a","c","h">>, <<"e","c","c","l","u","s">>,
                 <<"e","c","c","l","e","s","i","a","s","t","i","c","u","s">> >>],
    [name |-> <<"B","a","r","u","c","h">>,
     slug |-> <<"b","a","r","u","c","h">>,
     chapters |-> 6,
     abbrevs |-> << <<"b","a","r">>, <<"b","a","r","u","c","h">> >>],
    [name |-> <<"L","e","t","t","e","r"," ","o","f"," ","J","e","r","e","m","i","a","h">>,
     slug |-> <<"l","e","t","t","e","r","-","o","f","-","j","e","r","e","m","i","a","h">>,
     chapters |-> 1,
     abbrevs |-> << <<"l","e","t"," ","j","e","r">>, <<"e","p"," ","j","e","r">>,
                 <<"e","p","i","s","t","l","e"," ","o","f"," ","j","e","r">> >>],
    [name |-> <<"P","r","a","y","e","r"," ","o","f"," ","A","z","a","r","i","a","h">>,
     slug |-> <<"p","r","a","y","e","r","-","o","f","-","a","z","a","r","i","a","h">>,
     chapters |-> 1,
     abbrevs |-> << <<"p","r"," ","a","z","a","r">>, <<"s","g"," ","t","h","r","e","e">>,
                 <<"s","o","n","g"," ","o","f"," ","t","h","r","e","e">> >>],
    [name |-> <<"S","u","s","a","n","n","a">>,
     slug |-> <<"s","u","s","a","n","n","a">>,
     chapters |-> 1,
     abbrevs |-> << <<"s","u","s","a","n","n","a">> >>],
    [name |-> <<"B","e","l"," ","a","n","d"," ","t","h","e"," ","D","r","a","g","o","n">>,
     slug |-> <<"b","e","l">>,
     chapters |-> 1,
     abbrevs |-> << <<"b","e","l">>,
                 <<"b","e","l"," ","a","n","d"," ","d","r","a","g","o","n">> >>],
    [name |-> <<"P","r","a","y","e","r"," ","o","f"," ","M","a","n","a","s","s","e","h">>,
     slug |-> <<"p","r","a","y","e","r","-","o","f","-","m","a","n","a","s","s","e","h">>,
     chapters |-> 1,
     abbrevs |-> << <<"p","r"," ","m","a","n">>,
                 <<"p","r","a","y","e","r"," ","o","f"," ","m","a","n">> >>],
    [name |-> <<"1"," ","E","s","d","r","a","s">>,
     slug |-> <<"1","-","e","s","d","r","a","s">>,
     chapters |-> 9,
     abbrevs |-> << <<"1"," ","e","s","d">>, <<"1","e","s","d">>, <<"i"," ","e","s","d">>,
                 <<"3"," ","e","z","r","a">> >>],
    [name |-> <<"2"," ","E","s","d","r","a","s">>,
     slug |-> <<"2","-","e","s","d","r","a","s">>,
     chapters |-> 16,
     abbrevs |-> << <<"2"," ","e","s","d">>, <<"2","e","s","d">>, <<"i","i"," ","e","s","d">>,
                 <<"4"," ","e","z","r","a">> >>],
    [name |-> <<"M","a","t","t","h","e","w">>,
     slug |-> <<"m","a","t","t","h","e","w">>,
     chapters |-> 28,
     abbrevs |-> << <<"m","a","t","t">>, <<"m","a","t">>, <<"m","t">> >>],
    [name |-> <<"M","a","r","k">>,
     slug |-> <<"m","a","r","k">>,
     chapters |-> 16,
     abbrevs |-> << <<"m","a","r","k">>, <<"m","a","r">>, <<"m","r","k">>, <<"m","k">> >>],
    [name |-> <<"L","u","k","e">>,
     slug |-> <<"l","u","k","e">>,
     chapters |-> 24,
     abbrevs |-> << <<"l","u","k","e">>, <<"l","u","k">>, <<"l","k">> >>],
    [name |-> <<"J","o","h","n">>,
     slug |-> <<"j","o","h","n">>,
     chapters |-> 21,
     abbrevs |-> << <<"j","o","h","n">>, <<"j","o","h">>, <<"j","h","n">>, <<"j","n">> >>],
    [name |-> <<"A","c","t","s">>,
     slug |-> <<"a","c","t","s">>,
     chapters |-> 28,
     abbrevs |-> << <<"a","c","t","s">>, <<"a","c","t">> >>],
    [name |-> <<"R","o","m","a","n","s">>,
     slug |-> <<"r","o","m","a","n","s">>,
     chapters |-> 16,
     abbrevs |-> << <<"r","o","m">>, <<"r","o">>, <<"r","m">> >>],
    [name |-> <<"1"," ","C","o","r","i","n","t","h","i","a","n","s">>,
     slug |-> <<"1","-","c","o","r","i","n","t","h","i","a","n","s">>,
     chapters |-> 16,
     abbrevs |-> << <<"1"," ","c","o","r">>, <<"1","c","o","r">>, <<"i"," ","c","o","r">>,
                 <<"1"," ","c","o">>, <<"1","c","o">> >>],
    [name |-> <<"2"," ","C","o","r","i","n","t","h","i","a","n","s">>,
     slug |-> <<"2","-","c","o","r","i","n","t","h","i","a","n","s">>,
     chapters |-> 13,
     abbrevs |-> << <<"2"," ","c","o","r">>, <<"2","c","o","r">>, <<"i","i"," ","c","o","r">>,
                 <<"2"," ","c","o">>, <<"2","c","o">> >>],
    [name |-> <<"G","a","l","a","t","i","a","n","s">>,
     slug |-> <<"g","a","l","a","t","i","a","n","s">>,
     chapters |-> 6,
     abbrevs |-> << <<"g","a","l">>, <<"g","a">> >>],
    [name |-> <<"E","p","h","e","s","i","a","n","s">>,
     slug |-> <<"e","p","h","e","s","i","a","n","s">>,
     chapters |-> 6,
     abbrevs |-> << <<"e","p","h">>, <<"e","p","h","e","s">> >>],
    [name |-> <<"P","h","i","l","i","p","p","i","a","n","s">>,
     slug |-> <<"p","h","i","l","i","p","p","i","a","n","s">>,
     chapters |-> 4,
     abbrevs |-> << <<"p","h","i","l">>, <<"p","h","p">>, <<"p","p">> >>],
    [name |-> <<"C","o","l","o","s","s","i","a","n","s">>,
     slug |-> <<"c","o","l","o","s","s","i","a","n","s">>,
     chapters |-> 4,
     abbrevs |-> << <<"c","o","l">> >>],
    [name |-> <<"1"," ","T","h","e","s","s","a","l","o","n","i","a","n","s">>,
     slug |-> <<"1","-","t","h","e","s","s","a","l","o","n","i","a","n","s">>,
     chapters |-> 5,
     abbrevs |-> << <<"1"," ","t","h","e","s","s">>, <<"1","t","h","e","s","s">>,
                 <<"1"," ","t","h","e","s">>, <<"1","t","h","e","s">>,
                 <<"i"," ","t","h","e","s","s">>, <<"i"," ","t","h","e","s">>,
                 <<"1"," ","t","h">> >>],
    [name |-> <<"2"," ","T","h","e","s","s","a","l","o","n","i","a","n","s">>,
     slug |-> <<"2","-","t","h","e","s","s","a","l","o","n","i","a","n","s">>,
     chapters |-> 3,
     abbrevs |-> << <<"2"," ","t","h","e","s","s">>, <<"2","t","h","e","s","s">>,
                 <<"2"," ","t","h","e","s">>, <<"2","t","h","e","s">>,
                 <<"i","i"," ","t","h","e","s","s">>, <<"i","i"," ","t","h","e","s">>,
                 <<"2"," ","t","h">> >>],
    [name |-> <<"1"," ","T","i","m","o","t","h","y">>,
     slug |-> <<"1","-","t","i","m","o","t","h","y">>,
     chapters |-> 6,
     abbrevs |-> << <<"1"," ","t","i","m">>, <<"1","t","i","m">>, <<"i"," ","t","i","m">>,
                 <<"1"," ","t","i">>, <<"1","t","i">> >>],
    [name |-> <<"2"," ","T","i","m","o","t","h","y">>,
     slug |-> <<"2","-","t","i","m","o","t","h","y">>,
     chapters |-> 4,
     abbrevs |-> << <<"2"," ","t","i","m">>, <<"2","t","i","m">>, <<"i","i"," ","t","i","m">>,
                 <<"2"," ","t","i">>, <<"2","t","i">> >>],
    [name |-> <<"T","i","t","u","s">>,
     slug |-> <<"t","i","t","u","s">>,
     chapters |-> 3,
     abbrevs |-> << <<"t","i","t">>, <<"t","i">> >>],
    [name |-> <<"P","h","i","l","e","m","o","n">>,
     slug |-> <<"p","h","i","l","e","m","o","n">>,
     chapters |-> 1,
     abbrevs |-> << <<"p","h","l","m">>, <<"p","h","m">>, <<"p","h","i","l","e","m">> >>],
    [name |-> <<"H","e","b","r","e","w","s">>,
     slug |-> <<"h","e","b","r","e","w","s">>,
     chapters |-> 13,
     abbrevs |-> << <<"h","e","b">> >>],
    [name |-> <<"J","a","m","e","s">>,
     slug |-> <<"j","a","m","e","s">>,
     chapters |-> 5,
     abbrevs |-> << <<"j","a","s">>, <<"j","a","m">>, <<"j","m">> >>],
    [name |-> <<"1"," ","P","e","t","e","r">>,
     slug |-> <<"1","-","p","e","t","e","r">>,
     chapters |-> 5,
     abbrevs |-> << <<"1"," ","p","e","t">>, <<"1","p","e","t">>, <<"1"," ","p","e">>,
                 <<"1","p","e">>, <<"i"," ","p","e","t">>, <<"i"," ","p","e">>,
                 <<"1"," ","p","t">>, <<"1","p","t">> >>],
    [name |-> <<"2"," ","P","e","t","e","r">>,
     slug |-> <<"2","-","p","e","t","e","r">>,
     chapters |-> 3,
     abbrevs |-> << <<"2"," ","p","e","t">>, <<"2","p","e","t">>, <<"2"," ","p","e">>,
                 <<"2","p","e">>, <<"i","i"," ","p","e","t">>, <<"i","i"," ","p","e">>,
                 <<"2"," ","p","t">>, <<"2","p","t">> >>],
    [name |-> <<"1"," ","J","o","h","n">>,
     slug |-> <<"1","-","j","o","h","n">>,
     chapters |-> 5,
     abbrevs |-> << <<"1"," ","j","o","h","n">>, <<"1","j","o","h","n">>, <<"1"," ","j","n">>,
                 <<"1","j","n">>, <<"i"," ","j","o","h","n">>, <<"i"," ","j","n">>,
                 <<"1"," ","j","o">>, <<"1","j","o">> >>],
    [name |-> <<"2"," ","J","o","h","n">>,
     slug |-> <<"2","-","j","o","h","n">>,
     chapters |-> 1,
     abbrevs |-> << <<"2"," ","j","o","h","n">>, <<"2","j","o","h","n">>, <<"2"," ","j","n">>,
                 <<"2","j","n">>, <<"i","i"," ","j","o","h","n">>, <<"i","i"," ","j","n">> >>],
    [name |-> <<"3"," ","J","o","h","n">>,
     slug |-> <<"3","-","j","o","h","n">>,
     chapters |-> 1,
     abbrevs |-> << <<"3"," ","j","o","h","n">>, <<"3","j","o","h","n">>, <<"3"," ","j","n">>,
                 <<"3","j","n">>, <<"i","i","i"," ","j","o","h","n">>,
                 <<"i","i","i"," ","j","n">> >>],
    [name |-> <<"J","u","d","e">>,
     slug |-> <<"j","u","d","e">>,
     chapters |-> 1,
     abbrevs |-> << <<"j","u","d","e">>, <<"j","u","d">> >>],
    [name |-> <<"R","e","v","e","l","a","t","i","o","n">>,
     slug |-> <<"r","e","v","e","l","a","t","i","o","n">>,
     chapters |-> 22,
     abbrevs |-> << <<"r","e","v">>,
                 <<"t","h","e"," ","r","e","v","e","l","a","t","i","o","n">>,
                 <<"a","p","o","c","a","l","y","p","s","e">>, <<"a","p","o","c">> >>]
    >>

\* lines 202-206: the keys each book registers, in the order it registers them
RegisteredKeys(b) == b.abbrevs \o <<Lower(b.name)>>

RECURSIVE KeysFrom(_)
KeysFrom(i) ==
    IF i > Len(BOOKS) THEN << >> ELSE RegisteredKeys(BOOKS[i]) \o KeysFrom(i + 1)
AllRegistrations == KeysFrom(1)

\* the keys of _abbrev_map in insertion order: a dict keeps a key at the place
\* of its first insertion
AbbrevMapKeys ==
    LET indexed == [i \in 1..Len(AllRegistrations) |-> <<i, AllRegistrations[i]>>]
        first(p) == \A j \in 1..(p[1] - 1) : AllRegistrations[j] # p[2]
        kept == SelectSeq(indexed, first)
    IN  [i \in 1..Len(kept) |-> kept[i][2]]

LongestKey == MaxOf({Len(AbbrevMapKeys[i]) : i \in 1..Len(AbbrevMapKeys)})

RECURSIVE ByLengthFrom(_, _)
\* sorted(..., key=len, reverse=True) is stable: keys of one length keep their
\* insertion order
ByLengthFrom(keys, len) ==
    IF len < 1 THEN << >>
    ELSE LET has_len(k) == Len(k) = len
         IN  SelectSeq(keys, has_len) \o ByLengthFrom(keys, len - 1)

\* mutant of ABBREV_LIST: the keys in insertion order, not sorted by length
ABBREV_LIST_unsorted == AbbrevMapKeys

\* line 214: the keys of ABBREV_LOOKUP, longest first
ABBREV_LIST == ByLengthFrom(AbbrevMapKeys, LongestKey)

\* lines 201-211: a key maps to the last book that registered it
ABBREV_LOOKUP ==
    [k \in {AbbrevMapKeys[i] : i \in 1..Len(AbbrevMapKeys)} |->
        BOOKS[MaxOf({i \in 1..Len(BOOKS) :
                        \E j \in 1..Len(RegisteredKeys(BOOKS[i])) :
                            RegisteredKeys(BOOKS[i])[j] = k})]]

\* parser.py 112: the alternatives of the citation pattern, by the character
\* they start with; no other alternative can match where that character stands
AltsStartingWith ==
    [c \in {ABBREV_LIST[k][1] : k \in 1..Len(ABBREV_LIST)} |->
        {k \in 1..Len(ABBREV_LIST) : ABBREV_LIST[k][1] = c}]

(***************************************************************************)
(* _resolve_book, parser.py 165-185.                                       *)
(***************************************************************************)
\* the offset after the run of whitespace that starts at i (i when none)
SpaceRunEnd(t, i) == SkipWhile(t, i, Len(t), SpaceChars)

\* \b at offset i of t
WordBoundaryAt(t, i) ==
    (i > 0 /\ IsWord(t[i])) # (i < Len(t) /\ IsWord(t[i + 1]))

\* whether the literal lit occurs in t at offset i
LiteralAt(t, lit, i) == OccursAt(t, lit, i)

\* the regex \bst(?:\.?\s+|aint\s+) matched at offset i: the offset after the
\* match, or -1
StPrefixMatchEnd(t, i) ==
    IF ~(WordBoundaryAt(t, i) /\ LiteralAt(t, <<"s", "t">>, i)) THEN -1
    ELSE LET a == i + 2
             dotted == IF a < Len(t) /\ t[a + 1] = "." THEN a + 1 ELSE a
         IN  IF SpaceRunEnd(t, dotted) > dotted THEN SpaceRunEnd(t, dotted)
             ELSE IF SpaceRunEnd(t, a) > a THEN SpaceRunEnd(t, a)
             ELSE IF LiteralAt(t, <<"a", "i", "n", "t">>, a)
                     /\ SpaceRunEnd(t, a + 4) > a + 4
             THEN SpaceRunEnd(t, a + 4)
             ELSE -1

RECURSIVE RemoveStPrefix(_, _)
\* re.sub(r'\bst(?:\.?\s+|aint\s+)', '', s), scanning from pos
RemoveStPrefix(t, pos) ==
    LET S == {i \in pos..(Len(t) - 1) : StPrefixMatchEnd(t, i) # -1}
    IN  IF S = {} THEN Slice(t, pos, Len(t))
        ELSE LET at == MinOf(S)
             IN  Slice(t, pos, at) \o RemoveStPrefix(t, StPrefixMatchEnd(t, at))

\* re.sub(r'\.', '', s)
RemoveDots(t) == LET not_dot(c) == c # "." IN SelectSeq(t, not_dot)

\* re.sub(r'\s+', ' ', s): every run of whitespace becomes one space
CollapseSpaces(t) ==
    LET indexed == [i \in 1..Len(t) |-> <<i, t[i]>>]
        keep(p) == ~IsSpace(p[2]) \/ p[1] = 1 \/ ~IsSpace(t[p[1] - 1])
        kept == SelectSeq(indexed, keep)
    IN  [i \in 1..Len(kept) |-> IF IsSpace(kept[i][2]) THEN " " ELSE kept[i][2]]

\* str.rstrip(' .')
RStripSpaceDot(t) == Slice(t, 0, SkipBack(t, Len(t), {" ", "."}))

\* lines 183-185: the retry without trailing spaces and dots
LookupStripped(s2) ==
    IF s2 \in DOMAIN registry.ABBREV_LOOKUP THEN registry.ABBREV_LOOKUP[s2] ELSE None

\* lines 180-185, given the normalised spelling s
LookupNormalised(s) ==
    IF s \in DOMAIN registry.ABBREV_LOOKUP THEN registry.ABBREV_LOOKUP[s]
    ELSE LookupStripped(RStripSpaceDot(s))

resolve_book(spelling) ==
    LookupNormalised(Strip(CollapseSpaces(RemoveDots(RemoveStPrefix(Lower(spelling), 0)))))

(***************************************************************************)
(* _resolve_book_name, parse_thml.py 50-102.                               *)
(***************************************************************************)
\* lines 67-79: the keys a book registers in _NAME_LOOKUP before the
\* abbreviations are merged in
NameKeys(b) ==
    {Lower(b.name), b.slug}
    \cup (IF b.name = <<"P","s","a","l","m","s">>
          THEN {<<"p","s","a","l","m">>} ELSE {})
    \cup (IF b.name = <<"S","o","n","g"," ","o","f"," ","S","o","l","o","m","o","n">>
          THEN {<<"s","o","n","g"," ","o","f"," ","s","o","n","g","s">>,
                <<"c","a","n","t","i","c","l","e"," ","o","f"," ",
                  "c","a","n","t","i","c","l","e","s">>}
          ELSE {})
    \cup (IF b.name = <<"R","e","v","e","l","a","t","i","o","n">>
          THEN {<<"r","e","v","e","l","a","t","i","o","n","s">>,
                <<"a","p","o","c","a","l","y","p","s","e">>}
          ELSE {})

\* lines 66-83: _NAME_LOOKUP; setdefault keeps a key the loop of 67-79 set
NAME_LOOKUP ==
    [k \in (UNION {NameKeys(BOOKS[i]) : i \in 1..Len(BOOKS)}) \cup DOMAIN ABBREV_LOOKUP |->
        LET named == {i \in 1..Len(BOOKS) : k \in NameKeys(BOOKS[i])}
        IN  IF named # {} THEN BOOKS[MaxOf(named)] ELSE ABBREV_LOOKUP[k]]

\* _NUM_PREFIX_RE.sub(r"\1 \2", lower), the regex ^([1-4])([A-Za-z])
SpaceNumPrefix(t) ==
    IF Len(t) >= 2 /\ t[1] \in {"1", "2", "3", "4"}
           /\ t[2] \in UpperLetters \cup LowerLetters
    THEN <<t[1], " ">> \o Slice(t, 1, Len(t))
    ELSE t

\* lines 98-101, given the lower-cased name and its spaced form
LookupSpaced(lower, spaced) ==
    IF spaced # lower /\ spaced \in DOMAIN registry.NAME_LOOKUP
    THEN registry.NAME_LOOKUP[spaced]
    ELSE None

\* lines 93-101, given the lower-cased name
LookupLower(lower) ==
    IF lower \in DOMAIN registry.NAME_LOOKUP THEN registry.NAME_LOOKUP[lower]
    ELSE LookupSpaced(lower, SpaceNumPrefix(lower))

resolve_book_name(name) == LookupLower(Lower(Strip(name)))

\* the module globals as they stand once bible_data.py, parser.py and
\* parse_thml.py are imported
Registry ==
    [ABBREV_LIST |-> ABBREV_LIST,
     ABBREV_LOOKUP |-> ABBREV_LOOKUP,
     NAME_LOOKUP |-> NAME_LOOKUP,
     CITATION_ALTS |-> AltsStartingWith]

(***************************************************************************)
(* roman_to_int and is_roman, bible_data.py 217-240.  A Python int that    *)
(* may be None is a sequence: << >> for None, <<n>> for the integer n.     *)
(***************************************************************************)
NoInt == << >>
Some(n) == <<n>>

UpperOf ==
    [c \in LowerLetters |-> CHOOSE u \in UpperLetters : LowerOf[u] = c]
UpperChar(c) == IF c \in LowerLetters THEN UpperOf[c] ELSE c
\* str.upper()
Upper(s) == [i \in 1..Len(s) |-> UpperChar(s[i])]

\* line 224
RomanVals ==
    [c \in {"I", "V", "X", "L", "C", "D", "M"} |->
        CASE c = "I" -> 1 [] c = "V" -> 5 [] c = "X" -> 10 [] c = "L" -> 50
          [] c = "C" -> 100 [] c = "D" -> 500 [] c = "M" -> 1000]

RECURSIVE RomanTotal_always_add(_, _, _, _)
\* mutant of RomanTotal: a smaller symbol before a larger one is added too
RomanTotal_always_add(s, j, prev, total) ==
    IF j < 1 THEN total
    ELSE RomanTotal_always_add(s, j - 1, RomanVals[s[j]], total + RomanVals[s[j]])

RECURSIVE RomanTotal(_, _, _, _)
\* lines 227-235: the loop over reversed(s), j the 1-based index still to read
RomanTotal(s, j, prev, total) ==
    IF j < 1 THEN total
    ELSE LET v == RomanVals[s[j]]
         IN  RomanTotal(s, j - 1, v, IF v < prev THEN total - v ELSE total + v)

roman_to_int(str) ==
    LET s == Strip(Upper(str))
    IN  IF s = << >> \/ \E i \in 1..Len(s) : s[i] \notin DOMAIN RomanVals
        THEN NoInt
        ELSE Some(RomanTotal(s, Len(s), 0, 0))

is_roman(s) == roman_to_int(s) # NoInt

RECURSIVE DecimalValue(_, _)
\* the value of the decimal digits s[1..j]
DecimalValue(s, j) ==
    IF j < 1 THEN 0
    ELSE 10 * DecimalValue(s, j - 1)
         + (CHOOSE d \in 0..9 : <<"0","1","2","3","4","5","6","7","8","9">>[d + 1] = s[j])

\* int(str): surrounding whitespace, one optional sign, decimal digits with
\* single underscores between them; NoInt stands for ValueError
int(str) ==
    LET s == Strip(str)
        signed == Len(s) >= 1 /\ s[1] \in {"+", "-"}
        body == IF signed THEN Slice(s, 1, Len(s)) ELSE s
        not_underscore(c) == c # "_"
        digits == SelectSeq(body, not_underscore)
        well_formed ==
            /\ body # << >>
            /\ \A i \in 1..Len(body) : body[i] \in Digits \cup {"_"}
            /\ body[1] \in Digits /\ body[Len(body)] \in Digits
            /\ \A i \in 1..(Len(body) - 1) : ~(body[i] = "_" /\ body[i + 1] = "_")
    IN  IF ~well_formed THEN NoInt
        ELSE IF signed /\ s[1] = "-" THEN Some(0 - DecimalValue(digits, Len(digits)))
        ELSE Some(DecimalValue(digits, Len(digits)))

(***************************************************************************)
(* CITATION_RE, parser.py 98-143.  The pattern is compiled with            *)
(* re.IGNORECASE.  A group that did not take part in a match is << >>.     *)
(***************************************************************************)
\* whether key matches in t at offset i, letters compared without case
CaseInsensitiveAt(t, key, i) ==
    /\ i >= 0
    /\ i + Len(key) <= Len(t)
    /\ \A k \in 1..Len(key) : LowerChar(t[i + k]) = LowerChar(key[k])

\* [\s\.:]
SepChars == SpaceChars \cup {".", ":"}
\* [ivxlcdmIVXLCDM]
RomanChars == {"i","v","x","l","c","d","m","I","V","X","L","C","D","M"}
\* [-\u2013]; the en dash is outside the characters this model writes texts in
DashChars == {"-"}

\* mutant of BookAltEnd: the alternative without the lookahead (?=\W|$)
BookAltEnd_no_lookahead(t, key, s) ==
    LET e == s + Len(key)
    IN  IF ~CaseInsensitiveAt(t, key, s) THEN -1
        ELSE IF e < Len(t) /\ t[e + 1] = "." THEN e + 1
        ELSE e

\* one alternative of the book pattern at offset s: key, \.?, (?=\W|$).  The
\* offset after the token, or -1.  The dot is taken when what follows it
\* passes the lookahead; otherwise the token ends before the dot.
BookAltEnd(t, key, s) ==
    LET e == s + Len(key)
    IN  IF ~CaseInsensitiveAt(t, key, s) THEN -1
        ELSE IF e < Len(t) /\ t[e + 1] = "." /\ (e + 1 = Len(t) \/ ~IsWord(t[e + 2]))
        THEN e + 1
        ELSE IF e = Len(t) \/ ~IsWord(t[e + 1]) THEN e
        ELSE -1

\* the alternatives that start with character c
AltsFor(c) ==
    IF c \in DOMAIN registry.CITATION_ALTS THEN registry.CITATION_ALTS[c] ELSE {}

\* the first of the alternatives hits in the order of the alternation, or 0
FirstAlt(hits) == IF hits = {} THEN 0 ELSE MinOf(hits)

\* the alternation '|'.join(escaped): the index in ABBREV_LIST of the first
\* alternative that matches at offset s, or 0
BookAltIndex(t, s) ==
    FirstAlt({k \in AltsFor(IF s < Len(t) THEN LowerChar(t[s + 1]) ELSE "") :
                 BookAltEnd(t, registry.ABBREV_LIST[k], s) # -1})

\* the offsets at which a prefix whose word ends at word_end can end
PrefixEndsAfter(t, word_end) ==
    IF word_end = -1 THEN {} ELSE (word_end + 1)..SpaceRunEnd(t, word_end)

\* (?:(?:Saint|St\.?)\s+)? at offset i: the offsets at which the prefix can
\* end, {} when it does not match
BookPrefixEnds(t, i) ==
    PrefixEndsAfter(t,
        IF CaseInsensitiveAt(t, <<"s","a","i","n","t">>, i) THEN i + 5
        ELSE IF CaseInsensitiveAt(t, <<"s","t">>, i)
        THEN (IF i + 2 < Len(t) /\ t[i + 3] = "." THEN i + 3 ELSE i + 2)
        ELSE -1)

\* the book group whose registered spelling is key, at offset s
BookOfKey(t, s, key) ==
    [key_start |-> s, key |-> key, end |-> BookAltEnd(t, key, s)]

\* the book group whose registered spelling starts at offset s, given the
\* alternative k that matched there
BookOfAlt(t, s, k) ==
    IF k = 0 THEN None ELSE BookOfKey(t, s, registry.ABBREV_LIST[k])

\* where the registered spelling starts: after the prefix when the alternation
\* matches at one of the offsets prefixed, the longest run of whitespace
\* first; at i otherwise
KeyStart(i, prefixed) == IF prefixed # {} THEN MaxOf(prefixed) ELSE i

BookAt(t, s) == BookOfAlt(t, s, BookAltIndex(t, s))

\* the book group at offset i: where its registered spelling starts and which
\* alternative matched
BookMatch(t, i) ==
    IF ~WordBoundaryAt(t, i) THEN None
    ELSE BookAt(t, KeyStart(i, {s \in BookPrefixEnds(t, i) : BookAltIndex(t, s) # 0}))

\* [\s\.:]+ is greedy and no chapter or verse starts with one of its characters
SepEnd(t, i) == SkipWhile(t, i, Len(t), SepChars)
DigitsEnd(t, i) == SkipWhile(t, i, Len(t), Digits)

\* (?:[ivxlcdmIVXLCDM]+|\d+) at offset i: the offset after it, i when no match
ChapterEnd(t, i) ==
    IF i < Len(t) /\ t[i + 1] \in RomanChars
    THEN SkipWhile(t, i, Len(t), RomanChars)
    ELSE DigitsEnd(t, i)

\* (?:\s*[-\u2013]\s*\d+)? at offset i
VerseRangeEnd(t, i) ==
    LET a == SpaceRunEnd(t, i)
        b == IF a < Len(t) /\ t[a + 1] \in DashChars THEN SpaceRunEnd(t, a + 1) ELSE -1
    IN  IF b # -1 /\ DigitsEnd(t, b) > b THEN DigitsEnd(t, b) ELSE i

RECURSIVE VerseListEnd(_, _)
\* (?:\s*,\s*\d+)* at offset i
VerseListEnd(t, i) ==
    LET a == SpaceRunEnd(t, i)
        b == IF a < Len(t) /\ t[a + 1] = "," THEN SpaceRunEnd(t, a + 1) ELSE -1
    IN  IF b # -1 /\ DigitsEnd(t, b) > b THEN VerseListEnd(t, DigitsEnd(t, b)) ELSE i

\* verse_pat at offset i: the offset after it, i when no match
VerseEnd(t, i) ==
    IF DigitsEnd(t, i) = i THEN i
    ELSE VerseListEnd(t, VerseRangeEnd(t, DigitsEnd(t, i)))

\* the groups of a match: the book from i to be, the chapter from cs to ce
\* and the verse from vs to ve, a group that is empty having taken no part
MatchGroups(t, i, b, cs, ce, vs, ve) ==
    [start |-> i,
     end |-> IF ve > vs THEN ve ELSE IF ce > cs THEN ce ELSE b.end,
     book |-> Slice(t, i, b.end),
     chapter |-> IF ce > cs THEN Slice(t, cs, ce) ELSE << >>,
     verse |-> IF ve > vs THEN Slice(t, vs, ve) ELSE << >>,
     key_start |-> b.key_start,
     key |-> b.key]

\* (?:sep verse)? after a chapter that ends at ce, the separator ending at vs
MatchVerse(t, i, b, cs, ce, vs) ==
    MatchGroups(t, i, b, cs, ce, vs, IF vs > ce THEN VerseEnd(t, vs) ELSE vs)

\* what follows the chapter group, which is t[cs:ce] and empty when the
\* optional tail did not match
MatchAfterChapter(t, i, b, cs, ce) ==
    IF ce > cs THEN MatchVerse(t, i, b, cs, ce, SepEnd(t, ce))
    ELSE MatchGroups(t, i, b, cs, cs, cs, cs)

\* (?:sep chapter ...)? after the book, the separator ending at cs
MatchChapter(t, i, b, cs) ==
    MatchAfterChapter(t, i, b, cs, IF cs > b.end THEN ChapterEnd(t, cs) ELSE cs)

\* the match whose book group is b
MatchOfBook(t, i, b) ==
    IF b = None THEN None ELSE MatchChapter(t, i, b, SepEnd(t, b.end))

\* CITATION_RE matched at offset i, None when the book does not match there
CitationMatchAt(t, i) == MatchOfBook(t, i, BookMatch(t, i))

RECURSIVE finditer(_, _)
\* the match m and the matches after it
MatchAndRest(t, m) == <<m>> \o finditer(t, m.end)

\* the matches at the offsets S, the leftmost first
MatchesAmong(t, S) ==
    IF S = {} THEN << >> ELSE MatchAndRest(t, CitationMatchAt(t, MinOf(S)))

\* CITATION_RE.finditer(text): the matches from offset pos on, left to right,
\* each search resuming where the match before it ended
finditer(t, pos) ==
    MatchesAmong(t, {i \in pos..(Len(t) - 1) : BookMatch(t, i) # None})

(***************************************************************************)
(* _parse_verse_field, parser.py 149-162.                                  *)
(***************************************************************************)
RECURSIVE VerseNumbers(_, _)
\* [int(n) for n in _VERSE_LIST_RE.findall(verse_str)], from offset pos on
VerseNumbers(t, pos) ==
    LET S == {i \in pos..(Len(t) - 1) : t[i + 1] \in Digits}
    IN  IF S = {} THEN << >>
        ELSE LET a == MinOf(S)
                 e == DigitsEnd(t, a)
             IN  <<DecimalValue(Slice(t, a, e), e - a)>> \o VerseNumbers(t, e)

\* mutant of parse_verse_field: the last number is given even when it
\* equals the first
parse_verse_field_always_end(verse_str) ==
    LET nums == VerseNumbers(verse_str, 0)
    IN  IF verse_str = << >> \/ nums = << >>
        THEN [verse_start |-> NoInt, verse_end |-> NoInt]
        ELSE [verse_start |-> Some(nums[1]), verse_end |-> Some(nums[Len(nums)])]

\* lines 149-162
parse_verse_field(verse_str) ==
    LET nums == VerseNumbers(verse_str, 0)
    IN  IF verse_str = << >> \/ nums = << >>
        THEN [verse_start |-> NoInt, verse_end |-> NoInt]
        ELSE LET first == nums[1]
                 last == nums[Len(nums)]
             IN  [verse_start |-> Some(first),
                  verse_end |-> IF last # first THEN Some(last) ELSE NoInt]

(***************************************************************************)
(* parse_file, parser.py 269-361: the scan of the text for citations.      *)
(***************************************************************************)
\* str.rstrip(".")
RStripDots(t) == Slice(t, 0, SkipBack(t, Len(t), {"."}))

\* mutant of chapter_rejected: the chapter is not held against the book
chapter_rejected_no_upper_bound(chapter, bk) ==
    chapter = NoInt \/ chapter[1] < 1

\* line 319
chapter_rejected(chapter, bk) ==
    chapter = NoInt \/ chapter[1] < 1 \/ chapter[1] > bk.chapters

\* lines 333-343: the row of a citation
Row(bk, chapter, verse, citation_off, span) ==
    [book |-> bk.name,
     book_slug |-> bk.slug,
     chapter |-> chapter,
     verse_start |-> verse.verse_start,
     verse_end |-> verse.verse_end,
     citation_offset |-> citation_off,
     passage_start_offset |-> span[1],
     passage_end_offset |-> span[2]]

\* lines 311-317: the chapter as an integer
chapter_value(chapter_str) ==
    IF is_roman(chapter_str) THEN roman_to_int(chapter_str) ELSE int(chapter_str)

\* lines 319-343, given the book and the chapter
RowsOfChapter(t, m, bk, chapter) ==
    IF chapter_rejected(chapter, bk) THEN << >>
    ELSE << Row(bk, chapter[1], parse_verse_field(m.verse), m.start,
                extract_passage_offsets(t, m.start)) >>

\* lines 306-343, given the book
RowsOfBook(t, m, bk) ==
    IF bk = None THEN << >>
    ELSE RowsOfChapter(t, m, bk, chapter_value(RStripDots(Strip(m.chapter))))

\* lines 297-347, one pass of the loop body: the rows match m appends, none or
\* one
RowsOfMatch(t, m) ==
    IF m.chapter = << >> THEN << >> ELSE RowsOfBook(t, m, resolve_book(m.book))

RECURSIVE RowsFrom(_, _, _)
RowsFrom(t, ms, k) ==
    IF k > Len(ms) THEN << >> ELSE RowsOfMatch(t, ms[k]) \o RowsFrom(t, ms, k + 1)

\* lines 293-347: the rows parse_file collects from text t
parse_file_rows(t) == RowsFrom(t, finditer(t, 0), 1)

(***************************************************************************)
(* _parse_parsed_attr, parse_thml.py 213-257, and the rows parse_thml_file *)
(* makes of its results, parse_thml.py 338-358.                            *)
(***************************************************************************)
RECURSIVE SplitOn(_, _, _)
\* str.split(sep) for a one-character sep, from offset pos on
SplitOn(t, sep, pos) ==
    LET S == {i \in pos..(Len(t) - 1) : t[i + 1] = sep}
    IN  IF S = {} THEN <<Slice(t, pos, Len(t))>>
        ELSE <<Slice(t, pos, MinOf(S))>> \o SplitOn(t, sep, MinOf(S) + 1)

\* mutant of Citation: verse_end is kept when it equals verse_start
Citation_keeps_equal_end(book_entry, from_ch, from_v, to_v) ==
    [book_entry |-> book_entry,
     chapter |-> from_ch,
     verse_start |-> IF from_v > 0 THEN Some(from_v) ELSE NoInt,
     verse_end |-> IF to_v > 0 THEN Some(to_v) ELSE NoInt]

\* lines 246-256: the result of a segment
Citation(book_entry, from_ch, from_v, to_v) ==
    [book_entry |-> book_entry,
     chapter |-> from_ch,
     verse_start |-> IF from_v > 0 THEN Some(from_v) ELSE NoInt,
     verse_end |-> IF to_v > 0 /\ to_v # from_v THEN Some(to_v) ELSE NoInt]

\* lines 236-256, given the book and the three integers of the segment
ResultsOfNumbers(book_entry, from_ch, from_v, to_v) ==
    IF from_ch = NoInt \/ from_v = NoInt \/ to_v = NoInt THEN << >>
    ELSE IF from_ch[1] < 1 THEN << >>
    ELSE << Citation(book_entry, from_ch[1], from_v[1], to_v[1]) >>

\* lines 233-256, given the book
ResultsOfBook(parts, book_entry) ==
    IF book_entry = None THEN << >>
    ELSE ResultsOfNumbers(book_entry, int(parts[3]), int(parts[4]), int(parts[6]))

\* lines 230-256, given the parts of the segment
ResultsOfParts(parts) ==
    IF Len(parts) # 6 THEN << >>
    ELSE ResultsOfBook(parts, resolve_book_name(parts[2]))

\* lines 227-256, given the stripped segment
ResultsOfSegment(segment) ==
    IF segment = << >> THEN << >> ELSE ResultsOfParts(SplitOn(segment, "|", 0))

\* lines 226-256, one pass of the loop body: the results a segment appends
SegmentResults(raw_segment) == ResultsOfSegment(Strip(raw_segment))

RECURSIVE ResultsFrom(_, _)
ResultsFrom(segments, k) ==
    IF k > Len(segments) THEN << >>
    ELSE SegmentResults(segments[k]) \o ResultsFrom(segments, k + 1)

parse_parsed_attr(parsed) == ResultsFrom(SplitOn(parsed, ";", 0), 1)

\* parse_thml.py 348-358: the book, chapter and verse columns of the row made
\* of a citation
CitationRow(cit) ==
    [book |-> cit.book_entry.name,
     book_slug |-> cit.book_entry.slug,
     chapter |-> cit.chapter,
     verse_start |-> cit.verse_start,
     verse_end |-> cit.verse_end]

RowsOfCitations(citations) ==
    [i \in 1..Len(citations) |-> CitationRow(citations[i])]

\* parse_thml.py 338-358: the rows made of one scripRef's citations
scripref_rows(parsed) == RowsOfCitations(parse_parsed_attr(parsed))

(***************************************************************************)
(* Specification SpecBounds: _find_paragraph_bounds on every text over a   *)
(* small alphabet, at every offset of the text.                            *)
(***************************************************************************)
MaxBoundsLen == 5
BoundsAlphabet == {"a", "\n", " "}
BoundsTexts == UNION {[1..n -> BoundsAlphabet] : n \in 0..MaxBoundsLen}

InitBounds ==
    /\ text \in BoundsTexts
    /\ citation_offset \in 0..Len(text)
    /\ pc = "start"
    /\ files = None /\ companions = None /\ store = None
    /\ conn = None /\ run = None /\ latest = None /\ started = None
    /\ bounds = None
    /\ passage = None
    /\ path = None /\ raw_book = None /\ book = None /\ registry = None
    /\ payload = None /\ matches = None /\ rows = None
    /\ arg = None /\ returned = None
    /\ tree = None /\ builder = None /\ stack = None

FindParagraphBounds ==
    /\ pc = "start"
    /\ bounds' = find_paragraph_bounds(text, citation_offset)
    /\ pc' = "done"
    /\ UNCHANGED <<text, citation_offset, passage, resolve_vars, record_vars, call_vars, walk_vars, store_vars>>

NextBounds == FindParagraphBounds

SpecBounds == InitBounds /\ [][NextBounds]_vars

\* a blank-line boundary (a match of \n[ \t]*\n) lies wholly inside t[a:b]
HasBlankLine(t, a, b) ==
    \E i \in a..(b - 1) : BlankLineMatchEnd(t, i, b) # -1

\* the offsets just after a blank-line boundary that ends at or before off
BoundaryEndsBefore(t, off) ==
    {e \in 0..off : \E i \in 0..(e - 1) : BlankLineMatchEnd(t, i, e) = e}

\* the offsets at which a blank-line boundary starting at or after off begins
BoundaryStartsAfter(t, off) ==
    {s \in off..Len(t) : BlankLineMatchEnd(t, s, Len(t)) # -1}

\* C4: for every text and every offset in 0..len(text), the bounds returned
\* enclose the offset, the start is 0 or the end of a blank-line boundary at
\* or before the offset, the end is len(text) or the start of a blank-line
\* boundary at or after it, and the paragraph between them contains no
\* blank-line boundary.
C4_ParagraphBounds ==
    pc = "done" =>
        /\ bounds.para_start <= citation_offset
        /\ citation_offset <= bounds.para_end
        /\ bounds.para_start \in {0} \cup BoundaryEndsBefore(text, citation_offset)
        /\ bounds.para_end \in {Len(text)} \cup BoundaryStartsAfter(text, citation_offset)
        /\ ~HasBlankLine(text, bounds.para_start, bounds.para_end)

(***************************************************************************)
(* Specification SpecPassage: extract_passage_offsets on documents of up   *)
(* to MaxSentences sentences.  A document is a run of distinct ten-        *)
(* character sentences joined by single spaces, changed in one place:      *)
(*   indent     the text has leading and trailing whitespace               *)
(*   dup_first  sentence `at` repeats the text of the first sentence       *)
(*   dup_last   sentence `at` repeats the text of the last sentence        *)
(*   abbrev     sentence `at` holds "Mr. Smith" (a false boundary)         *)
(*   short_nl   a short fragment on a line of its own follows sentence at  *)
(*   short_sp   a short fragment between spaces follows sentence at        *)
(*   break      a blank line follows sentence `at`                         *)
(* The citation offset is every seventh offset of the text.                 *)
(***************************************************************************)
MaxSentences == 12
SentenceCounts == (1..MaxSentences) \cup {20}
Variations ==
    {"plain", "indent", "dup_first", "dup_last", "abbrev", "short_nl", "short_sp",
     "break"}

LetterSeq ==
    <<"a","b","c","d","e","f","g","h","i","j","k","l","m",
      "n","o","p","q","r","s","t","u","v","w","x","y","z">>
UpperSeq ==
    <<"A","B","C","D","E","F","G","H","I","J","K","L","M",
      "N","O","P","Q","R","S","T","U","V","W","X","Y","Z">>

PlainSentence(k) ==
    <<UpperSeq[k]>> \o [i \in 1..8 |-> LetterSeq[k]] \o <<".">>

SentenceOf(k, n, variation, at) ==
    IF k # at THEN PlainSentence(k)
    ELSE CASE variation = "dup_first" -> PlainSentence(1)
           [] variation = "dup_last" -> PlainSentence(n)
           [] variation = "abbrev" ->
                <<UpperSeq[k], LetterSeq[k], " ", "M", "r", ".", " ",
                  "S", "m", "i", "t", "h", ".">>
           [] OTHER -> PlainSentence(k)

SeparatorAfter(k, n, variation, at) ==
    IF k = at /\ variation = "break" THEN <<"\n", "\n">>
    ELSE IF k = at /\ variation = "short_nl" THEN <<"\n", "O", "h", ".", "\n">>
    ELSE IF k = at /\ variation = "short_sp" THEN <<" ", "O", "h", ".", " ">>
    ELSE IF k = n THEN << >>
    ELSE <<" ">>

RECURSIVE DocumentFrom(_, _, _, _)
DocumentFrom(k, n, variation, at) ==
    IF k > n THEN << >>
    ELSE SentenceOf(k, n, variation, at) \o SeparatorAfter(k, n, variation, at)
             \o DocumentFrom(k + 1, n, variation, at)

Document(n, variation, at) ==
    IF variation = "indent"
    THEN <<" ", " ">> \o DocumentFrom(1, n, variation, at) \o <<" ">>
    ELSE DocumentFrom(1, n, variation, at)

ProbeOffsets(t) == {i \in 0..Len(t) : i % 7 = 0}

InitPassage ==
    /\ \E n \in SentenceCounts, variation \in Variations, at \in 1..MaxSentences :
          /\ at <= n
          /\ variation \in {"plain", "indent"} => at = 1
          /\ n > MaxSentences => variation = "plain"
          /\ text = Document(n, variation, at)
    /\ citation_offset \in ProbeOffsets(text)
    /\ pc = "start"
    /\ files = None /\ companions = None /\ store = None
    /\ conn = None /\ run = None /\ latest = None /\ started = None
    /\ bounds = None
    /\ passage = None
    /\ path = None /\ raw_book = None /\ book = None /\ registry = None
    /\ payload = None /\ matches = None /\ rows = None
    /\ arg = None /\ returned = None
    /\ tree = None /\ builder = None /\ stack = None

ExtractPassageOffsets ==
    /\ pc = "start"
    /\ passage' = extract_passage_locals(text, citation_offset)
    /\ pc' = "done"
    /\ UNCHANGED <<text, citation_offset, bounds, resolve_vars, record_vars, call_vars, walk_vars, store_vars>>

NextPassage == ExtractPassageOffsets

SpecPassage == InitPassage /\ [][NextPassage]_vars

Windowed == pc = "done" /\ passage # None /\ passage.windowed

\* the span [pos, pos + len] the scan of lines 231-238 gave sentence i (0-based)
\* holds the citation
SpanHoldsCitation(i) ==
    LET cite_rel == citation_offset - passage.para_start
    IN  /\ passage.positions[i + 1] <= cite_rel
        /\ cite_rel <= passage.positions[i + 1] + passage.lengths[i + 1]

\* C1: when the paragraph has n > 10 sentences and the citation lies in
\* sentence c (the sentence whose span, as the scan locates it, holds the
\* offset), the window is the 10 consecutive sentences that start at index
\* min(max(0, c-5), n-10): it lies inside the paragraph and includes sentence c;
\* for n = 20 and c = 15 it is sentences 10..19.
C1_WindowIndices ==
    Windowed =>
        LET n == passage.n
            c == passage.cite_sent_idx
        IN  /\ n > 10
            /\ (\E i \in 0..(n - 1) : SpanHoldsCitation(i)) =>
                   /\ SpanHoldsCitation(c)
                   /\ \A i \in (c + 1)..(n - 1) : ~SpanHoldsCitation(i)
            /\ passage.start_idx = Min(Max(0, c - 5), n - 10)
            /\ passage.end_idx = passage.start_idx + 10
            /\ 0 <= passage.start_idx /\ passage.end_idx <= n
            /\ passage.start_idx <= c /\ c < passage.end_idx
            /\ (n = 20 /\ c = 15) => (passage.start_idx = 10 /\ passage.end_idx = 20)

\* the spec's example: 20 sentences, the citation at offset 168 inside sentence 15
\* (which starts at offset 15 * 11 = 165), window 10..19
C1_Witness ==
    /\ Windowed
    /\ passage.n = 20
    /\ citation_offset = 168
    /\ passage.cite_sent_idx = 15
    /\ passage.start_idx = 10
    /\ passage.end_idx = 20

\* C2: when windowing applies, the start returned is the offset in the full
\* text where the first chosen sentence begins and the end returned is the
\* offset where the last chosen sentence ends, also in paragraphs in which a
\* sentence text occurs more than once.  Stated for the runs in which the scan
\* located every sentence of the paragraph.
C2_WindowOffsets ==
    (Windowed /\ \A i \in 1..passage.n : passage.found[i]) =>
        /\ passage.start =
               passage.para_start + passage.positions[passage.start_idx + 1]
        /\ passage.end =
               passage.para_start + passage.positions[passage.end_idx]
                   + passage.lengths[passage.end_idx]

\* C3: when the paragraph around the citation segments into at most 10
\* sentences, the pair returned is exactly the paragraph bounds of
\* _find_paragraph_bounds and no window is chosen.
C3_WholeParagraph ==
    (pc = "done" /\ passage # None /\ passage.n <= 10) =>
        LET pb == find_paragraph_bounds(text, citation_offset)
        IN  /\ ~passage.windowed
            /\ passage.start = pb.para_start
            /\ passage.end = pb.para_end

\* a paragraph of exactly 10 sentences with whitespace around them: its bounds
\* are not the bounds of its sentences
C3_Witness ==
    /\ pc = "done" /\ passage # None
    /\ passage.n = 10
    /\ ~passage.windowed
    /\ text[1] = " "
    /\ passage.start = 0 /\ passage.end = Len(text)


(***************************************************************************)
(* Specification SpecResolve: one call of a book resolver, _resolve_book   *)
(* of parser.py or _resolve_book_name of parse_thml.py, on a raw spelling.      *)
(***************************************************************************)
\* the prefixes a citation may carry before the book
StPrefixes == {<<"S","t"," ">>, <<"S","t","."," ">>, <<"S","a","i","n","t"," ">>}

\* a key that is a digit, one space, then a letter
IsNumberedKey(k) ==
    Len(k) >= 3 /\ k[1] \in Digits /\ k[2] = " " /\ k[3] \in LowerLetters

\* the glued spelling of a numbered key: the space after the digit left out
Glued(k) == <<k[1]>> \o Slice(k, 2, Len(k))

\* the registry of a resolver
LookupOf(p) == IF p = "plain" THEN registry.ABBREV_LOOKUP ELSE registry.NAME_LOOKUP

RawSpellings(p) ==
    {k : k \in DOMAIN LookupOf(p)}
    \cup {Glued(k) : k \in {x \in DOMAIN LookupOf(p) : IsNumberedKey(x)}}
    \cup (IF p = "plain"
          THEN {pre \o k : pre \in StPrefixes, k \in DOMAIN registry.ABBREV_LOOKUP}
          ELSE {})

InitResolve ==
    /\ registry = Registry
    /\ path \in {"plain", "thml"}
    /\ raw_book \in RawSpellings(path)
    /\ book = None
    /\ pc = "start"
    /\ files = None /\ companions = None /\ store = None
    /\ conn = None /\ run = None /\ latest = None /\ started = None
    /\ text = None /\ citation_offset = None /\ bounds = None /\ passage = None
    /\ payload = None /\ matches = None /\ rows = None
    /\ arg = None /\ returned = None
    /\ tree = None /\ builder = None /\ stack = None

ResolveBook ==
    /\ pc = "start" /\ path = "plain"
    /\ book' = resolve_book(raw_book)
    /\ pc' = "done"
    /\ UNCHANGED <<text, passage_vars, path, raw_book, registry, record_vars, call_vars, walk_vars, store_vars>>

ResolveBookName ==
    /\ pc = "start" /\ path = "thml"
    /\ book' = resolve_book_name(raw_book)
    /\ pc' = "done"
    /\ UNCHANGED <<text, passage_vars, path, raw_book, registry, record_vars, call_vars, walk_vars, store_vars>>

NextResolve == ResolveBook \/ ResolveBookName

SpecResolve == InitResolve /\ [][NextResolve]_vars

\* C8: in the plain-text resolver, a registered spelling b prefixed by "St ",
\* "St. " or "Saint " resolves to the same book entry as b itself.
C8_SaintPrefix ==
    (pc = "done" /\ path = "plain") =>
        \A pre \in StPrefixes, b \in DOMAIN registry.ABBREV_LOOKUP :
            raw_book = pre \o b => book = resolve_book(b)

\* C9: in both resolvers, the glued spelling of a numbered registry key (the
\* digit immediately followed by the letter) resolves to the book of the
\* spaced key.
C9_GluedDigit ==
    pc = "done" =>
        \A k \in DOMAIN LookupOf(path) :
            (IsNumberedKey(k) /\ raw_book = Glued(k)) => book = LookupOf(path)[k]


(***************************************************************************)
(* Specification SpecRecords: the citation records of one run, of          *)
(* parse_file over a text or of _parse_parsed_attr over the payload of one *)
(* scripRef.                                                               *)
(***************************************************************************)
Leads ==
    {<<>>,
     <<"S","e","e"," ">>}
Prefixes ==
    {<<>>,
     <<"S","t"," ">>,
     <<"S","a","i","n","t"," ">>}
Spellings ==
    {<<"J","o","h","n">>,
     <<"1"," ","C","o","r">>,
     <<"W","i","s","d","o","m"," ","o","f"," ","S","o","l","o","m","o","n">>,
     <<"P","s","a","l","m">>,
     <<"J","u","d","e">>}
Dots ==
    {<<>>,
     <<".">>}
Chapters ==
    {<<>>,
     <<" ","v","i">>,
     <<" ","1","5">>,
     <<" ","9","9">>,
     <<" ","0">>,
     <<":","3">>}
Verses ==
    {<<>>,
     <<":","1","0">>,
     <<"."," ","1","3","-","1","7">>,
     <<":","1","7","-","1","3">>,
     <<":","0">>}
Trailers ==
    {<<>>,
     <<" ","a","n","d"," ","R","o","m","."," ","8",":","1",".">>}

\* prose in which a registered spelling begins a longer word
ProseTexts ==
    {<<"G","e","n","e","r","a","l"," ","E","p","i","s","t","l","e">>,
     <<"T","h","e"," ","G","e","n","e","r","a","l"," ","E","p","i","s","t","l","e"," ","3",":","1">>,
     <<"R","o","m","a","n","t","i","c"," ","G","e","n","."," ","3",":","1">>,
     <<"R","o","m","a","n","t","i","c"," ","8",":","1">>,
     <<"J","o","h","n","s","o","n"," ","3",":","1","6"," ","a","n","d"," ","J","u","d","e","a"," ","1">>}

WordTexts ==
    {<<"J","o","h","n"," ","i","s"," ","h","e","r","e",".">>,
     <<"M","a","r","k"," ","d","i","d"," ","i","t",".">>,
     <<"P","s","a","l","m"," ","i","l","l"," ","f","i","t","s">>,
     <<"J","o","h","n"," ","3","x">>}

CitationTexts ==
    {lead \o pre \o sp \o dot \o ch \o v \o tr :
        lead \in Leads, pre \in Prefixes, sp \in Spellings, dot \in Dots,
        ch \in Chapters, v \in Verses, tr \in Trailers}
    \cup ProseTexts \cup WordTexts

PayloadBooks ==
    {<<"J","o","h","n">>,
     <<"1","J","o","h","n">>,
     <<"N","o","b","o","d","y">>}
PayloadChapters ==
    {<<"0">>,
     <<"3">>,
     <<"2","1">>,
     <<"2","2">>,
     <<"x">>}
PayloadFromVerses ==
    {<<"0">>,
     <<"5">>,
     <<"1","6">>}
PayloadToVerses ==
    {<<"0">>,
     <<"2">>,
     <<"5">>,
     <<"1","6">>}
PayloadShapes == {"one", "two", "short", "spaced"}

Bar == <<"|">>
Segment(b, ch, fv, tv) ==
    <<"x">> \o Bar \o b \o Bar \o ch \o Bar \o fv \o Bar \o ch \o Bar \o tv

PayloadOf(shape, b, ch, fv, tv) ==
    CASE shape = "one" -> Segment(b, ch, fv, tv)
      [] shape = "two" ->
            Segment(b, ch, fv, tv) \o <<";">>
                \o Segment(<<"G","e","n">>, <<"1">>, <<"1">>, <<"3">>)
      [] shape = "short" -> Bar \o b \o Bar \o ch \o Bar \o fv \o Bar \o tv
      [] shape = "spaced" -> <<" ">> \o Segment(b, ch, fv, tv) \o <<" ", ";", " ">>

PayloadExamples ==
    {<<"x","|","J","o","h","n","|","3","|","1","6","|","i","i","i","|","1","8">>,
     <<"x","|","J","o","h","n","|","3","|","1","6","|","3","|","x">>,
     <<"x","|","J","o","h","n","|","3","|","x","|","3","|","1","6">>,
     <<"x","|","J","o","h","n","|","3","|","5","|","3","|","1","6","|","7">>,
     <<"x","|","J","o","h","n","|","3","|","5","|","4","|","2">>,
     <<"x","|","J","o","h","n","|","-","1","|","5","|","3","|","1","6">>,
     <<"x","|","J","o","h","n","|","3","|","-","2","|","3","|","-","2">>,
     <<"x","|","J","o","h","n","|","3","|","1","6","|","|","1","8">>,
     <<"x","|","J","o","h","n","|"," ","3"," ","|","+","5","|","3","|","1","_","6">>}

Payloads ==
    {PayloadOf(shape, b, ch, fv, tv) :
        shape \in PayloadShapes, b \in PayloadBooks, ch \in PayloadChapters,
        fv \in PayloadFromVerses, tv \in PayloadToVerses}
        \cup PayloadExamples

InitRecords ==
    /\ registry = Registry
    /\ path \in {"plain", "thml"}
    /\ text \in (IF path = "plain" THEN CitationTexts ELSE {None})
    /\ payload \in (IF path = "thml" THEN Payloads ELSE {None})
    /\ matches = None
    /\ rows = None
    /\ pc = "start"
    /\ files = None /\ companions = None /\ store = None
    /\ conn = None /\ run = None /\ latest = None /\ started = None
    /\ citation_offset = None /\ bounds = None /\ passage = None
    /\ raw_book = None /\ book = None
    /\ arg = None /\ returned = None
    /\ tree = None /\ builder = None /\ stack = None

ParseFile ==
    /\ pc = "start" /\ path = "plain"
    /\ matches' = finditer(text, 0)
    /\ rows' = RowsFrom(text, matches', 1)
    /\ pc' = "done"
    /\ UNCHANGED <<text, passage_vars, resolve_vars, payload, call_vars, walk_vars, store_vars>>

ParseParsedAttr ==
    /\ pc = "start" /\ path = "thml"
    /\ rows' = scripref_rows(payload)
    /\ pc' = "done"
    /\ UNCHANGED <<text, passage_vars, resolve_vars, payload, matches, call_vars, walk_vars, store_vars>>

NextRecords == ParseFile \/ ParseParsedAttr

SpecRecords == InitRecords /\ [][NextRecords]_vars

\* the registry entry of a book name
BookNamed(name) == CHOOSE b \in {BOOKS[i] : i \in 1..Len(BOOKS)} : b.name = name

\* C5: every record of either path that has a verse_end has a verse_start,
\* and its verse_end is not below its verse_start.
C5_VerseOrder ==
    pc = "done" =>
        \A i \in 1..Len(rows) :
            rows[i].verse_end # NoInt =>
                /\ rows[i].verse_start # NoInt
                /\ rows[i].verse_end[1] >= rows[i].verse_start[1]

\* C7: every record made of a structured payload has its chapter within
\* 1..chapters of its book.
C7_PayloadChapterInRange ==
    (pc = "done" /\ path = "thml") =>
        \A i \in 1..Len(rows) :
            /\ rows[i].chapter >= 1
            /\ rows[i].chapter <= BookNamed(rows[i].book).chapters


\* the integer a chapter token stands for: a Roman numeral, else a decimal
ChapterValue(token) ==
    IF is_roman(token) THEN roman_to_int(token) ELSE int(token)

\* a match that has a chapter token, a book that resolves, and a chapter
\* value within 1..chapters of that book
Accepted(m) ==
    /\ m.chapter # << >>
    /\ resolve_book(m.book) # None
    /\ ChapterValue(m.chapter) # NoInt
    /\ ChapterValue(m.chapter)[1] >= 1
    /\ ChapterValue(m.chapter)[1] <= resolve_book(m.book).chapters

\* C6: the records of parse_file are, in order, those of the matches that
\* have a chapter token resolving to an integer in 1..book.chapters; every
\* other match leaves no record and the scan goes on to the next match.
C6_RecordsOfMatches ==
    (pc = "done" /\ path = "plain") =>
        LET accepted == SelectSeq(matches, Accepted)
        IN  /\ Len(rows) = Len(accepted)
            /\ \A i \in 1..Len(rows) :
                /\ rows[i].citation_offset = accepted[i].start
                /\ rows[i].book = resolve_book(accepted[i].book).name
                /\ rows[i].chapter = ChapterValue(accepted[i].chapter)[1]

\* a match whose chapter is beyond its book is dropped and the match after it
\* is recorded
C6_Witness ==
    /\ pc = "done" /\ path = "plain"
    /\ Len(matches) = 2
    /\ matches[1].chapter = <<"9", "9">>
    /\ resolve_book(matches[1].book) # None
    /\ Len(rows) = 1
    /\ rows[1].citation_offset = matches[2].start
    /\ rows[1].book = <<"R","o","m","a","n","s">>

\* C10: ABBREV_LIST is ordered by non-increasing length, so of the registered
\* spellings that match at the start of a book token and pass the lookahead
\* none is longer than the one matched; "1 Cor. 15:10" is recorded as
\* 1 Corinthians 15:10.
C10_LongestSpellingWins ==
    /\ registry # None =>
            \A i \in 1..(Len(registry.ABBREV_LIST) - 1) :
                Len(registry.ABBREV_LIST[i]) >= Len(registry.ABBREV_LIST[i + 1])
    /\ (pc = "done" /\ path = "plain") =>
        /\ \A i \in 1..Len(matches) :
                \A k \in 1..Len(registry.ABBREV_LIST) :
                    BookAltEnd(text, registry.ABBREV_LIST[k], matches[i].key_start) # -1
                        => Len(registry.ABBREV_LIST[k]) <= Len(matches[i].key)
        /\ text = <<"1"," ","C","o","r","."," ","1","5",":","1","0">> =>
                /\ Len(rows) = 1
                /\ rows[1].book = <<"1"," ","C","o","r","i","n","t","h","i","a","n","s">>
                /\ rows[1].chapter = 15
                /\ rows[1].verse_start = Some(10)

\* "wisdom" and "wisdom of solomon" both match at the start of the token and
\* the longer one is the token matched
C10_Witness ==
    /\ pc = "done" /\ path = "plain"
    /\ Len(matches) >= 1
    /\ matches[1].key = <<"w","i","s","d","o","m"," ","o","f"," ","s","o","l","o","m","o","n">>
    /\ BookAltEnd(text, <<"w","i","s","d","o","m">>, matches[1].key_start) # -1
    /\ Len(rows) >= 1
    /\ rows[1].book_slug = <<"w","i","s","d","o","m">>


\* C11: in every match the book token, after its optional dot, is followed
\* by a non-word character or by the end of the text, and so is the registered
\* spelling itself or its dot; a spelling that only begins a longer word
\* ("Gen" in "General Epistle", "Rom" in "Romantic") gives no match.
C11_BookTokenEndsWord ==
    (pc = "done" /\ path = "plain") =>
        /\ \A i \in 1..Len(matches) :
            LET e == matches[i].start + Len(matches[i].book)
                ke == matches[i].key_start + Len(matches[i].key)
            IN  /\ e = Len(text) \/ ~IsWord(text[e + 1])
                /\ ke = Len(text) \/ ~IsWord(text[ke + 1])
        /\ text \in {<<"G","e","n","e","r","a","l"," ","E","p","i","s","t","l","e">>,
                     <<"R","o","m","a","n","t","i","c"," ","8",":","1">>}
                => matches = << >>

\* "Romantic Gen. 3:1": nothing is matched at "Rom", and "Gen. 3:1" is
C11_Witness ==
    /\ pc = "done" /\ path = "plain"
    /\ OccursAt(text, <<"R","o","m","a","n","t","i","c"," ","G","e","n",".">>, 0)
    /\ Len(matches) = 1
    /\ matches[1].start = 9
    /\ matches[1].key = <<"g","e","n">>
    /\ Len(rows) = 1

(***************************************************************************)
(* _parse_verse_field called on its own on every short verse field.        *)
(***************************************************************************)
MaxVerseLen == 5

VerseAlphabet == {"1", "3", "-", ",", " "}

StringsUpTo(alphabet, n) == UNION {[1..k -> alphabet] : k \in 0..n}

VerseExamples ==
    {<<"1","3","-","1","3">>,
     <<"1","3","-","1","7">>,
     <<"1","3",","," ","1","4",","," ","1","5">>,
     <<"1","-","2",","," ","1">>,
     <<"0","1","3","-","1","3">>,
     <<"7">>}

VerseFields == StringsUpTo(VerseAlphabet, MaxVerseLen) \cup VerseExamples

InitVerseField ==
    /\ arg \in VerseFields
    /\ returned = None
    /\ pc = "start"
    /\ files = None /\ companions = None /\ store = None
    /\ conn = None /\ run = None /\ latest = None /\ started = None
    /\ text = None
    /\ citation_offset = None /\ bounds = None /\ passage = None
    /\ path = None /\ raw_book = None /\ book = None /\ registry = None
    /\ payload = None /\ matches = None /\ rows = None
    /\ tree = None /\ builder = None /\ stack = None

ParseVerseField ==
    /\ pc = "start"
    /\ returned' = parse_verse_field(arg)
    /\ pc' = "done"
    /\ UNCHANGED <<arg, text, passage_vars, resolve_vars, record_vars, walk_vars, store_vars>>

SpecVerseField == InitVerseField /\ [][ParseVerseField]_vars

\* offsets at which a maximal run of digits begins
DigitRunStarts(t) ==
    {i \in 0..(Len(t) - 1) : t[i + 1] \in Digits /\ (i = 0 \/ t[i] \notin Digits)}

RunValue(t, i) == DecimalValue(Slice(t, i, DigitsEnd(t, i)), DigitsEnd(t, i) - i)

\* C12: the verse field gives (None, None) when it has no digit run; else
\* verse_start is the first run and verse_end the last run, given only when its
\* value differs from the first: "13-13" gives (13, None), "13-17" gives
\* (13, 17), "13, 14, 15" gives (13, 15).
C12_VerseField ==
    pc = "done" =>
        LET S == DigitRunStarts(arg)
        IN  /\ S = {} => returned = [verse_start |-> NoInt, verse_end |-> NoInt]
            /\ S # {} =>
                LET first == RunValue(arg, MinOf(S))
                    last == RunValue(arg, MaxOf(S))
                IN  /\ returned.verse_start = Some(first)
                    /\ returned.verse_end = IF last # first THEN Some(last) ELSE NoInt
            /\ arg = <<"1","3","-","1","3">> => returned = [verse_start |-> <<13>>, verse_end |-> NoInt]
            /\ arg = <<"1","3","-","1","7">> => returned = [verse_start |-> <<13>>, verse_end |-> <<17>>]
            /\ arg = <<"1","3",","," ","1","4",","," ","1","5">> => returned = [verse_start |-> <<13>>, verse_end |-> <<15>>]

\* "13, 14, 15": three runs, the middle one is dropped
C12_Witness ==
    /\ pc = "done"
    /\ arg = <<"1","3",","," ","1","4",","," ","1","5">>
    /\ Cardinality(DigitRunStarts(arg)) = 3
    /\ returned = [verse_start |-> <<13>>, verse_end |-> <<15>>]

(***************************************************************************)
(* roman_to_int called on its own: on the numeral of every number that it  *)
(* is documented to handle, in both cases, and on other short strings.     *)
(***************************************************************************)
\* bible_data.py 221: "Handles values 1-3999"
MaxRoman == 3999

MaxNumeralLen == 4

\* the numeral of one decimal digit d written with the symbols of its place
RomanDigit(d, one, five, ten) ==
    IF d = 9 THEN <<one, ten>>
    ELSE IF d = 4 THEN <<one, five>>
    ELSE (IF d >= 5 THEN <<five>> ELSE << >>) \o [k \in 1..(d % 5) |-> one]

\* the canonical Roman numeral of n
ToRoman(n) ==
    [k \in 1..(n \div 1000) |-> "M"]
        \o RomanDigit((n \div 100) % 10, "C", "D", "M")
        \o RomanDigit((n \div 10) % 10, "X", "L", "C")
        \o RomanDigit(n % 10, "I", "V", "X")

CanonicalNumerals == {ToRoman(n) : n \in 1..MaxRoman}

LowerNumerals == {Lower(s) : s \in CanonicalNumerals}

RomanExamples ==
    {<<>>,
     <<"A","B","C">>,
     <<"I","I","I","I">>,
     <<"V","X">>,
     <<"I","L","L">>,
     <<" ","x","i","v"," ">>,
     <<"X","i","v">>,
     <<"i","i","i","i">>,
     <<"M","M","M","M">>,
     <<"I","M">>,
     <<" "," ">>,
     <<"x","1">>}

RomanInputs ==
    CanonicalNumerals \cup LowerNumerals
        \cup StringsUpTo({"I", "V", "X", "L"}, MaxNumeralLen) \cup RomanExamples

InitRoman ==
    /\ arg \in RomanInputs
    /\ returned = None
    /\ pc = "start"
    /\ files = None /\ companions = None /\ store = None
    /\ conn = None /\ run = None /\ latest = None /\ started = None
    /\ text = None
    /\ citation_offset = None /\ bounds = None /\ passage = None
    /\ path = None /\ raw_book = None /\ book = None /\ registry = None
    /\ payload = None /\ matches = None /\ rows = None
    /\ tree = None /\ builder = None /\ stack = None

RomanToInt ==
    /\ pc = "start"
    /\ returned' = roman_to_int(arg)
    /\ pc' = "done"
    /\ UNCHANGED <<arg, text, passage_vars, resolve_vars, record_vars, walk_vars, store_vars>>

SpecRoman == InitRoman /\ [][RomanToInt]_vars

\* C13: on the canonical numeral of n in 1..3999, in upper or in lower case,
\* roman_to_int returns n: the number returned lies in 1..3999 and the
\* argument is its canonical numeral (no two numbers share a numeral).
C13_CanonicalNumeral ==
    (pc = "done" /\ arg \in CanonicalNumerals \cup LowerNumerals) =>
        /\ returned # NoInt
        /\ returned[1] \in 1..MaxRoman
        /\ ToRoman(returned[1]) = Upper(arg)
        /\ Upper(arg) = ToRoman(1994) => returned = <<1994>>
        /\ Upper(arg) = ToRoman(3999) => returned = <<3999>>

\* "mcmxciv": three symbols are subtracted on the way to 1994
C13_Witness ==
    /\ pc = "done"
    /\ arg = <<"m","c","m","x","c","i","v">>
    /\ arg = Lower(ToRoman(1994))
    /\ returned = <<1994>>

\* C14: roman_to_int returns None on the empty string, on a string with a
\* character outside I V X L C D M, and on every string over those letters
\* that is not the canonical numeral of a number in 1..3999 ("IIII", "VX",
\* "ILL"); case and surrounding blanks are set aside as the function does.
C14_NotANumeral ==
    (pc = "done" /\ Strip(Upper(arg)) \notin CanonicalNumerals) =>
        returned = NoInt

(***************************************************************************)
(* _TextBuilder, parse_thml.py 164-208.  An element tree is the sequence   *)
(* of its elements in document order; an element is a record of its tag,   *)
(* its text, its tail, its "parsed" attribute and the index of its parent  *)
(* (0 for the root).  An absent text, tail or attribute is << >>.          *)
(***************************************************************************)
\* lines 40-48
_SKIP_CONTENT_TAGS == {"ThML.head", "head", "note", "scripCom", "index", "pb", "milestone"}

\* lines 173-177
NewTextBuilder == [_parts |-> << >>, _offset |-> 0, scripref_hits |-> << >>]

\* mutant of _append: the counter counts the pieces, not their characters
_append_counts_parts(b, t) ==
    IF t # << >>
    THEN [b EXCEPT !._parts = Append(@, t), !._offset = @ + 1]
    ELSE b

\* lines 179-182
_append(b, t) ==
    IF t # << >>
    THEN [b EXCEPT !._parts = Append(@, t), !._offset = @ + Len(t)]
    ELSE b

RECURSIVE Join(_, _)
\* "".join(parts[k..])
Join(parts, k) == IF k > Len(parts) THEN << >> ELSE parts[k] \o Join(parts, k + 1)

\* lines 206-208: the text property
builder_text(b) == Join(b._parts, 1)

\* the children of el that come after the child last walked
ChildrenAfter(t, el, last) == {j \in (last + 1)..Len(t) : t[j].parent = el}

\* mutant of walk_call: the content of an element under a suppressed one is
\* suppressed only when its own tag says so
walk_call_forgets_in_skip(t, b, stk, el, in_skip) ==
    LET skip_content == t[el].tag \in _SKIP_CONTENT_TAGS
        hit == IF t[el].tag = "scripRef"
               THEN [b EXCEPT !.scripref_hits = Append(@, <<el, b._offset>>)]
               ELSE b
    IN  [builder |-> IF ~skip_content THEN _append(hit, t[el].text) ELSE b,
         stack |-> Append(stk, [el |-> el, in_skip |-> in_skip,
                                skip_content |-> skip_content, last |-> 0])]

\* lines 184-193: walk(el, in_skip) up to its loop over the children
walk_call(t, b, stk, el, in_skip) ==
    LET entering_skip == t[el].tag \in _SKIP_CONTENT_TAGS
        skip_content == in_skip \/ entering_skip
        hit == IF t[el].tag = "scripRef"
               THEN [b EXCEPT !.scripref_hits = Append(@, <<el, b._offset>>)]
               ELSE b
    IN  [builder |-> IF ~skip_content THEN _append(hit, t[el].text) ELSE b,
         stack |-> Append(stk, [el |-> el, in_skip |-> in_skip,
                                skip_content |-> skip_content, last |-> 0])]

\* mutant of walk_return: the tail of a suppressed element is dropped too
walk_return_drops_tail(t, b, stk) ==
    LET top == stk[Len(stk)]
    IN  [builder |-> IF ~top.skip_content THEN _append(b, t[top.el].tail) ELSE b,
         stack |-> SubSeq(stk, 1, Len(stk) - 1)]

\* lines 202-204: the end of walk(el, in_skip), after its children
walk_return(t, b, stk) ==
    LET top == stk[Len(stk)]
    IN  [builder |-> IF ~top.in_skip THEN _append(b, t[top.el].tail) ELSE b,
         stack |-> SubSeq(stk, 1, Len(stk) - 1)]

\* lines 194-200: the loop over the children goes on to `child`, which is
\* walked with in_skip = False under an element whose content is kept and
\* with in_skip = True under one whose content is suppressed
walk_child(t, b, stk, child) ==
    walk_call(t, b, [stk EXCEPT ![Len(stk)].last = child], child,
              stk[Len(stk)].skip_content)

\* one step of the walk in progress: into the next child of the element on
\* top of the stack, or out of that element
walk_step(t, b, stk) ==
    LET top == stk[Len(stk)]
        rest == ChildrenAfter(t, top.el, top.last)
    IN  IF rest # {} THEN walk_child(t, b, stk, MinOf(rest))
        ELSE walk_return(t, b, stk)

RECURSIVE walk_run(_, _)
\* the walk carried through to the return of its outermost call
walk_run(t, m) ==
    IF m.stack = << >> THEN m.builder
    ELSE walk_run(t, walk_step(t, m.builder, m.stack))

\* parse_thml.py 299-301: builder = _TextBuilder(); builder.walk(root)
walk(t) == walk_run(t, walk_call(t, NewTextBuilder, << >>, 1, FALSE))

(***************************************************************************)
(* The walk of a document, one call or return of walk at a time.           *)
(***************************************************************************)
MaxNodes == 4

Tags == {"p", "note", "scripRef"}

Element(tag, txt, tail, parent, parsed) ==
    [tag |-> tag, text |-> txt, tail |-> tail, parent |-> parent, parsed |-> parsed]

RECURSIVE PathTo(_, _)
\* j and the elements above it, under the parent vector p
PathTo(p, j) == IF j = 0 THEN {} ELSE {j} \cup PathTo(p, p[j])

\* the parent vectors of the trees of n elements in document order
Shapes(n) ==
    {p \in [1..n -> 0..(n - 1)] :
        /\ p[1] = 0
        /\ \A i \in 2..n : p[i] \in 1..(i - 1)
        /\ \A i \in 2..n : p[i] \in PathTo(p, i - 1)}

\* every element has a text and a tail of its own, told apart by a letter
NodeLetters == <<"a", "b", "c", "d", "e", "f">>
NodeText(i) == <<NodeLetters[i], NodeLetters[i]>>
NodeTail(i) == <<" ", UpperChar(NodeLetters[i]), ".">>

\* the tree of shape p and tags tg whose element `blank` has no text and no
\* tail; the root is a div and has no tail
MakeTree(n, p, tg, blank) ==
    [i \in 1..n |->
        Element(IF i = 1 THEN "div" ELSE tg[i],
                IF i = blank THEN << >> ELSE NodeText(i),
                IF i = blank \/ i = 1 THEN << >> ELSE NodeTail(i),
                p[i], << >>)]

TreesOf(n) ==
    {MakeTree(n, p, tg, blank) : p \in Shapes(n), tg \in [2..n -> Tags], blank \in 0..n}

\* <div><head>Title</head>Next line.</div>
HeadExample ==
    <<Element("div", << >>, << >>, 0, << >>),
      Element("head", <<"T","i","t","l","e">>, <<"N","e","x","t"," ","l","i","n","e",".">>, 1, << >>)>>

\* <ThML.head>hh<p>pp<scripRef>rr</scripRef>tt</p>uu</ThML.head>
SuppressedRootExample ==
    <<Element("ThML.head", <<"h","h">>, << >>, 0, << >>),
      Element("p", <<"p","p">>, <<"u","u">>, 1, << >>),
      Element("scripRef", <<"r","r">>, <<"t","t">>, 2, << >>)>>

\* <div>See <scripRef/><pb/>on <scripRef>Jn 3</scripRef><index>ix</index>.</div>
MarkerExample ==
    <<Element("div", <<"S","e","e"," ">>, << >>, 0, << >>),
      Element("scripRef", << >>, << >>, 1, << >>),
      Element("pb", << >>, <<"o","n"," ">>, 1, << >>),
      Element("scripRef", <<"J","n"," ","3">>, << >>, 1, << >>),
      Element("index", <<"i","x">>, <<".">>, 1, << >>)>>

Trees ==
    UNION {TreesOf(n) : n \in 1..MaxNodes}
        \cup {HeadExample, SuppressedRootExample, MarkerExample}

InitWalk ==
    /\ tree \in Trees
    /\ builder = NewTextBuilder
    /\ stack = << >>
    /\ pc = "start"
    /\ files = None /\ companions = None /\ store = None
    /\ conn = None /\ run = None /\ latest = None /\ started = None
    /\ text = None
    /\ citation_offset = None /\ bounds = None /\ passage = None
    /\ path = None /\ raw_book = None /\ book = None /\ registry = None
    /\ payload = None /\ matches = None /\ rows = None
    /\ arg = None /\ returned = None

\* builder.walk(root)
WalkRoot ==
    /\ pc = "start"
    /\ LET m == walk_call(tree, builder, stack, 1, FALSE)
       IN  builder' = m.builder /\ stack' = m.stack
    /\ pc' = "walking"
    /\ UNCHANGED <<tree, text, passage_vars, resolve_vars, record_vars, call_vars, store_vars>>

\* the walk goes into the next child or out of the element it is in
WalkStep ==
    /\ pc = "walking"
    /\ LET m == walk_step(tree, builder, stack)
       IN  /\ builder' = m.builder
           /\ stack' = m.stack
           /\ pc' = IF m.stack = << >> THEN "done" ELSE "walking"
    /\ UNCHANGED <<tree, text, passage_vars, resolve_vars, record_vars, call_vars, store_vars>>

NextWalk == WalkRoot \/ WalkStep

SpecWalk == InitWalk /\ [][NextWalk]_vars

RECURSIVE Above(_, _)
\* the elements above el
Above(t, el) == IF t[el].parent = 0 THEN {} ELSE {t[el].parent} \cup Above(t, t[el].parent)

\* el lies under a content-suppressing element
UnderSuppressed(t, el) == \E a \in Above(t, el) : t[a].tag \in _SKIP_CONTENT_TAGS

Suppressing(t, el) == t[el].tag \in _SKIP_CONTENT_TAGS

\* the string s occurs in the text t
Occurs(t, s) == \E i \in 0..(Len(t) - Len(s)) : OccursAt(t, s, i)

\* C15: when the walk is over, the tail of a content-suppressing element that
\* lies under no suppressed element is in the text and the element's own text
\* is not; <head>Title</head>Next line. gives "Next line." and no "Title".
C15_TailAfterSuppressed ==
    pc = "done" =>
        /\ \A el \in 1..Len(tree) :
              (Suppressing(tree, el) /\ ~UnderSuppressed(tree, el)) =>
                  /\ tree[el].tail # << >> => Occurs(builder_text(builder), tree[el].tail)
                  /\ tree[el].text # << >> => ~Occurs(builder_text(builder), tree[el].text)
        /\ tree = HeadExample => builder_text(builder) = <<"N","e","x","t"," ","l","i","n","e",".">>

\* a note with a text and a tail, under the root: only the tail is kept
C15_Witness ==
    /\ pc = "done"
    /\ Len(tree) >= 2
    /\ tree[2].tag = "note" /\ tree[2].parent = 1
    /\ tree[2].text = NodeText(2) /\ tree[2].tail = NodeTail(2)
    /\ Occurs(builder_text(builder), NodeTail(2))
    /\ ~Occurs(builder_text(builder), NodeText(2))

\* C16: when the walk is over, the text holds neither the text of a
\* content-suppressing element, nor the text or the tail of any element under
\* one, however deep; and no scripRef under one is among scripref_hits.
C16_SuppressedSubtree ==
    pc = "done" =>
        /\ \A el \in 1..Len(tree) :
              /\ ((Suppressing(tree, el) \/ UnderSuppressed(tree, el))
                     /\ tree[el].text # << >>)
                    => ~Occurs(builder_text(builder), tree[el].text)
              /\ (UnderSuppressed(tree, el) /\ tree[el].tail # << >>)
                    => ~Occurs(builder_text(builder), tree[el].tail)
        /\ \A k \in 1..Len(builder.scripref_hits) :
              ~UnderSuppressed(tree, builder.scripref_hits[k][1])
        /\ tree = SuppressedRootExample =>
              builder_text(builder) = << >> /\ builder.scripref_hits = << >>

\* <div>aa<note>bb<p>cc<scripRef>dd</scripRef> D.</p> C.</note> B.</div>:
\* the marker two levels under the note is not recorded, only "aa B." is kept
C16_Witness ==
    /\ pc = "done"
    /\ Len(tree) = 4
    /\ tree[2].tag = "note" /\ tree[3].tag = "p" /\ tree[4].tag = "scripRef"
    /\ tree[3].parent = 2 /\ tree[4].parent = 3
    /\ \A el \in 1..4 : tree[el].text = NodeText(el)
    /\ \A el \in 2..4 : tree[el].tail = NodeTail(el)
    /\ builder.scripref_hits = << >>
    /\ builder_text(builder) = NodeText(1) \o NodeTail(2)

\* C17: all along the walk _offset is the length of the text accumulated so
\* far and the recorded offsets never decrease, in document order; when the
\* walk is over every scripRef under no suppressed element is recorded once,
\* and its text stands in the final text at the offset recorded for it.
C17_MarkerOffsets ==
    /\ builder._offset = Len(builder_text(builder))
    /\ \A k \in 1..Len(builder.scripref_hits) :
          /\ tree[builder.scripref_hits[k][1]].tag = "scripRef"
          /\ builder.scripref_hits[k][2] \in 0..builder._offset
          /\ \A l \in (k + 1)..Len(builder.scripref_hits) :
                /\ builder.scripref_hits[k][1] < builder.scripref_hits[l][1]
                /\ builder.scripref_hits[k][2] <= builder.scripref_hits[l][2]
    /\ pc = "done" =>
          \A el \in 1..Len(tree) :
              (tree[el].tag = "scripRef" /\ ~UnderSuppressed(tree, el)) =>
                  \E k \in 1..Len(builder.scripref_hits) :
                      /\ builder.scripref_hits[k][1] = el
                      /\ OccursAt(builder_text(builder), tree[el].text,
                                  builder.scripref_hits[k][2])

\* "See on Jn 3.": the empty marker is recorded at 4, the marker "Jn 3" at 7
C17_Witness ==
    /\ pc = "done"
    /\ tree = MarkerExample
    /\ builder_text(builder) = <<"S","e","e"," ","o","n"," ","J","n"," ","3",".">>
    /\ builder.scripref_hits = <<<<2, 4>>, <<4, 7>>>>

\* the fields of a payload that is one segment
FieldsOf(p) == SplitOn(Strip(p), "|", 0)

OneSegment(p) == p # None /\ \A i \in 1..Len(p) : p[i] # ";"

\* C18: a segment that has not exactly six fields, or one of whose numeric
\* fields (fromChapter, fromVerse, toChapter, toVerse) is no integer, or whose
\* fromChapter is below 1, gives no citation.
C18_SegmentSkipped ==
    (pc = "done" /\ path = "thml" /\ OneSegment(payload)) =>
        ((\/ Len(FieldsOf(payload)) # 6
          \/ \E k \in 3..6 : int(FieldsOf(payload)[k]) = NoInt
          \/ int(FieldsOf(payload)[3])[1] < 1)
            => rows = << >>)

\* C19: the record of an accepted segment has fromChapter as its chapter,
\* fromVerse as its verse_start only if fromVerse > 0, and toVerse as its
\* verse_end only if toVerse > 0 and toVerse differs from fromVerse.
C19_SegmentVerses ==
    (pc = "done" /\ path = "thml" /\ OneSegment(payload) /\ rows # << >>) =>
        LET from_ch == int(FieldsOf(payload)[3])[1]
            from_v == int(FieldsOf(payload)[4])[1]
            to_v == int(FieldsOf(payload)[6])[1]
        IN  /\ Len(rows) = 1
            /\ rows[1].chapter = from_ch
            /\ rows[1].verse_start = (IF from_v > 0 THEN <<from_v>> ELSE NoInt)
            /\ rows[1].verse_end =
                  (IF to_v > 0 /\ to_v # from_v THEN <<to_v>> ELSE NoInt)

\* x|John|3|5|3|16 gives John 3:5-16
C19_Witness ==
    /\ pc = "done" /\ path = "thml"
    /\ payload = <<"x","|","J","o","h","n","|","3","|","5","|","3","|","1","6">>
    /\ Len(rows) = 1
    /\ rows[1].chapter = 3
    /\ rows[1].verse_start = <<5>>
    /\ rows[1].verse_end = <<16>>

(***************************************************************************)
(* parse_thml_file, parse_thml.py 299-360: the walk of the document and    *)
(* the rows made of its markers.                                           *)
(***************************************************************************)
\* lines 348-358: the row of one citation of a marker
ThmlRow(cit, cite_offset, span) ==
    [book |-> cit.book_entry.name,
     book_slug |-> cit.book_entry.slug,
     chapter |-> cit.chapter,
     verse_start |-> cit.verse_start,
     verse_end |-> cit.verse_end,
     citation_offset |-> cite_offset,
     passage_start_offset |-> span[1],
     passage_end_offset |-> span[2]]

\* lines 336-358: one window for the marker, one row for each citation
RowsOfWindow(citations, cite_offset, span) ==
    [i \in 1..Len(citations) |-> ThmlRow(citations[i], cite_offset, span)]

\* lines 332-358, given the citations of the marker
RowsOfMarker(clean_text, cite_offset, citations) ==
    IF citations = << >> THEN << >>
    ELSE RowsOfWindow(citations, cite_offset,
                      extract_passage_offsets(clean_text, cite_offset))

\* lines 327-358, one pass of the loop over scripref_hits
RowsOfHit(clean_text, parsed_attr, cite_offset) ==
    IF parsed_attr = << >> THEN << >>
    ELSE RowsOfMarker(clean_text, cite_offset, parse_parsed_attr(parsed_attr))

RECURSIVE RowsOfHits(_, _, _, _)
RowsOfHits(t, clean_text, hits, k) ==
    IF k > Len(hits) THEN << >>
    ELSE RowsOfHit(clean_text, t[hits[k][1]].parsed, hits[k][2])
            \o RowsOfHits(t, clean_text, hits, k + 1)

\* lines 301-360, given the builder after the walk
thml_rows(t, b) == RowsOfHits(t, builder_text(b), b.scripref_hits, 1)

MaxSegments == 2

SegmentChoices ==
    {<<"x","|","J","o","h","n","|","3","|","1","6","|","3","|","1","6">>,
     <<"x","|","G","e","n","|","1","|","1","|","1","|","3">>,
     <<"x","|","J","o","h","n","|","3">>,
     <<"x","|","N","o","b","o","d","y","|","1","|","1","|","1","|","1">>,
     <<"x","|","J","o","h","n","|","x","|","1","|","1","|","1">>,
     <<"x","|","J","o","h","n","|","3","|","1","6","|","i","i","i","|","1","8">>,
     <<" ">>}

RECURSIVE JoinSegments(_, _)
JoinSegments(segs, k) ==
    IF k > Len(segs) THEN << >>
    ELSE IF k = Len(segs) THEN segs[k]
    ELSE segs[k] \o <<";">> \o JoinSegments(segs, k + 1)

MarkerPayloads ==
    {JoinSegments(segs, 1) : segs \in StringsUpTo(SegmentChoices, MaxSegments)}

SecondPayloads == {<< >>, <<"x","|","G","e","n","|","1","|","1","|","1","|","3">>, <<"x","|","G","e","n","|","1","|","1">>}

\* <div><p>In the beginning. As it is written <scripRef parsed=p1>Jn 3:16
\* </scripRef> and again <scripRef parsed=p2>Gen 1</scripRef>, so.</p>
\* (blank line)<p>Next paragraph.<note><scripRef parsed=p2>Rom 8</scripRef>
\* </note> End.</p></div>
ThmlDocument(p1, p2) ==
    <<Element("div", << >>, << >>, 0, << >>),
      Element("p", <<"I","n"," ","t","h","e"," ","b","e","g","i","n","n","i","n","g","."," ","A","s"," ","i","t"," ","i","s"," ","w","r","i","t","t","e","n"," ">>, <<"\n", "\n">>, 1, << >>),
      Element("scripRef", <<"J","n"," ","3",":","1","6">>, <<" ","a","n","d"," ","a","g","a","i","n"," ">>, 2, p1),
      Element("scripRef", <<"G","e","n"," ","1">>, <<","," ","s","o",".">>, 2, p2),
      Element("p", <<"N","e","x","t"," ","p","a","r","a","g","r","a","p","h",".">>, << >>, 1, << >>),
      Element("note", << >>, <<" ","E","n","d",".">>, 5, << >>),
      Element("scripRef", <<"R","o","m"," ","8">>, << >>, 6, p2)>>

InitThmlFile ==
    /\ registry = Registry
    /\ \E p1 \in MarkerPayloads, p2 \in SecondPayloads : tree = ThmlDocument(p1, p2)
    /\ builder = None
    /\ stack = << >>
    /\ text = None
    /\ rows = None
    /\ pc = "start"
    /\ files = None /\ companions = None /\ store = None
    /\ conn = None /\ run = None /\ latest = None /\ started = None
    /\ citation_offset = None /\ bounds = None /\ passage = None
    /\ path = None /\ raw_book = None /\ book = None
    /\ payload = None /\ matches = None
    /\ arg = None /\ returned = None

ParseThmlFile ==
    /\ pc = "start"
    /\ builder' = walk(tree)
    /\ text' = builder_text(builder')
    /\ rows' = thml_rows(tree, builder')
    /\ pc' = "done"
    /\ UNCHANGED <<tree, stack, passage_vars, resolve_vars, payload, matches, call_vars, store_vars>>

SpecThmlFile == InitThmlFile /\ [][ParseThmlFile]_vars

\* a segment with six fields, a book that resolves, an integer in each of its
\* four numeric fields and a fromChapter of at least 1
WellFormed(parts) ==
    /\ Len(parts) = 6
    /\ resolve_book_name(parts[2]) # None
    /\ \A k \in 3..6 : int(parts[k]) # NoInt
    /\ int(parts[3])[1] >= 1

RECURSIVE CitationsOfWellFormed(_, _)
\* the citations of the well-formed segments, each decoded on its own
CitationsOfWellFormed(segs, k) ==
    IF k > Len(segs) THEN << >>
    ELSE (IF WellFormed(FieldsOf(segs[k])) THEN parse_parsed_attr(segs[k]) ELSE << >>)
            \o CitationsOfWellFormed(segs, k + 1)

RECURSIVE RowsExpected(_, _, _, _)
\* the rows of the recorded markers: for each, its well-formed segments in
\* payload order, all at the marker's offset and in the marker's window
RowsExpected(t, clean_text, hits, k) ==
    IF k > Len(hits) THEN << >>
    ELSE LET cits == CitationsOfWellFormed(SplitOn(t[hits[k][1]].parsed, ";", 0), 1)
             span == extract_passage_offsets(clean_text, hits[k][2])
         IN  [i \in 1..Len(cits) |-> ThmlRow(cits[i], hits[k][2], span)]
                \o RowsExpected(t, clean_text, hits, k + 1)

\* C20: the rows of a document are, marker by marker, the citations of the
\* well-formed segments of the marker's payload, in payload order, whatever
\* the other segments are, each with the offset and the passage window of the
\* marker.
C20_SegmentsIndependent ==
    pc = "done" => rows = RowsExpected(tree, text, builder.scripref_hits, 1)

(***************************************************************************)
(* split_sentences called on its own, on texts made of a few sentences.    *)
(***************************************************************************)
MaxPieces == 2

SentencePieces ==
    {<<"H","e"," ","w","r","o","t","e"," ","t","o"," ","M","r","."," ","S","m","i","t","h",".">>,
     <<"I","t"," ","w","a","s"," ","l","a","t","e",".">>,
     <<"O","h","!">>,
     <<"S","e","e"," ","R","o","m","."," ","v","i","i","i",".">>,
     <<"\"","Q","u","o","t","e","d"," ","w","o","r","d","s"," ","h","e","r","e",".","\"">>}

SentenceSeparators == {<<" ">>, <<"\n">>, <<" ", " ">>}

RECURSIVE PiecesTexts(_)
\* the texts of at most n pieces, a separator between each two
PiecesTexts(n) ==
    IF n = 1 THEN SentencePieces
    ELSE PiecesTexts(n - 1)
            \cup {t \o sep \o p :
                    t \in PiecesTexts(n - 1), sep \in SentenceSeparators,
                    p \in SentencePieces}

SentenceExamples ==
    {<<"H","e"," ","w","r","o","t","e"," ","t","o"," ","M","r","."," ","S","m","i","t","h","."," ","I","t"," ","w","a","s"," ","l","a","t","e",".">>,
     <<>>,
     <<" "," ","A","."," ","B","."," "," ">>,
     <<"O","h","!"," ","I","t"," ","w","a","s"," ","l","a","t","e","."," ","(","S","o",".",")"," ","V","o","l","."," ","I","I"," ","i","s"," ","o","u","t",".">>}

SentenceTexts == PiecesTexts(MaxPieces) \cup SentenceExamples

InitSentences ==
    /\ arg \in SentenceTexts
    /\ returned = None
    /\ pc = "start"
    /\ files = None /\ companions = None /\ store = None
    /\ conn = None /\ run = None /\ latest = None /\ started = None
    /\ text = None
    /\ citation_offset = None /\ bounds = None /\ passage = None
    /\ path = None /\ raw_book = None /\ book = None /\ registry = None
    /\ payload = None /\ matches = None /\ rows = None
    /\ tree = None /\ builder = None /\ stack = None

SplitSentences ==
    /\ pc = "start"
    /\ returned' = split_sentences(arg)
    /\ pc' = "done"
    /\ UNCHANGED <<arg, text, passage_vars, resolve_vars, record_vars, walk_vars, store_vars>>

SpecSentences == InitSentences /\ [][SplitSentences]_vars

MrSmith == <<"M","r","."," ","S","m","i","t","h",".">>

\* C22: a text that holds "Mr. Smith." is not broken after "Mr.", and the
\* sentence that runs across that false boundary is the span of the text:
\* "He wrote to Mr. Smith. It was late." gives exactly "He wrote to Mr. Smith."
\* and "It was late.".
C22_AbbreviationNotBroken ==
    (pc = "done" /\ Occurs(arg, MrSmith)) =>
        /\ \A i \in 1..Len(returned) :
              ~OccursAt(returned[i], <<"M", "r", ".">>, Len(returned[i]) - 3)
        /\ \E i \in 1..Len(returned) : Occurs(returned[i], MrSmith)
        /\ arg = <<"H","e"," ","w","r","o","t","e"," ","t","o"," ","M","r","."," ","S","m","i","t","h","."," ","I","t"," ","w","a","s"," ","l","a","t","e",".">> =>
              returned = <<<<"H","e"," ","w","r","o","t","e"," ","t","o"," ","M","r","."," ","S","m","i","t","h",".">>, <<"I","t"," ","w","a","s"," ","l","a","t","e",".">>>>

\* the characters of t that are not whitespace, in order
NonSpace(t) == SelectSeq(t, LAMBDA c : ~IsSpace(c))

\* C24: in the result of split_sentences no sentence is empty or begins or
\* ends with whitespace, no sentence but the first is shorter than 10
\* characters, and the sentences follow the order of the text: their
\* characters other than whitespace are those of the text, in order.
C24_ShortFragmentsMerged ==
    pc = "done" =>
        /\ \A i \in 1..Len(returned) :
              /\ returned[i] # << >>
              /\ ~IsSpace(returned[i][1])
              /\ ~IsSpace(returned[i][Len(returned[i])])
              /\ i > 1 => Len(returned[i]) >= SHORT_FRAGMENT
        /\ NonSpace(Join(returned, 1)) = NonSpace(arg)

\* "It was late.\nOh!": the fragment "Oh!" is merged into the sentence before
C24_Witness ==
    /\ pc = "done"
    /\ arg = <<"I","t"," ","w","a","s"," ","l","a","t","e",".">> \o <<"\n">> \o <<"O","h","!">>
    /\ returned = <<<<"I","t"," ","w","a","s"," ","l","a","t","e","."," ","O","h","!">>>>

\* C23: in a paragraph that is windowed, every sentence of split_sentences is
\* found in the paragraph at or after the cursor the sentence before it left,
\* as a contiguous substring is: the fallback of lines 233-234 is never taken.
C23_SentencesFound ==
    Windowed => \A i \in 1..passage.n : passage.found[i]

\* C28: the pair returned satisfies 0 <= start <= offset <= end <= len(text).
C28_WindowHoldsCitation ==
    (pc = "done" /\ passage # None) =>
        /\ 0 <= passage.start
        /\ passage.start <= citation_offset
        /\ citation_offset <= passage.end
        /\ passage.end <= Len(text)

\* C29: in every record of the plain-text matcher the chapter token is a
\* whole word: when the match ends with its chapter token, the character after
\* it is no word character; "John is", "Mark did", "Psalm ill" give no record.
C29_ChapterTokenEndsWord ==
    (pc = "done" /\ path = "plain") =>
        /\ \A i \in 1..Len(matches) :
              (Accepted(matches[i]) /\ matches[i].verse = << >>) =>
                  \/ matches[i].end = Len(text)
                  \/ ~IsWord(text[matches[i].end + 1])
        /\ text \in WordTexts => rows = << >>


(***************************************************************************)
(* The store: db.py, and what parse_file and parse_thml_file do to it.     *)
(* A database is a record: manuscripts, the set of the rows of that table, *)
(* and verse_refs, its rows in the order of their insertion.  A path is a  *)
(* record of its directories, stem and suffix.                             *)
(***************************************************************************)

EmptyStore == [manuscripts |-> {}, verse_refs |-> << >>]

\* pathlib: path.name, path.with_suffix(".txt"), path.parent.name, path.stem
PathName(p) == [dir |-> << >>, stem |-> p.stem, suffix |-> p.suffix]

with_suffix(p, suffix) == [p EXCEPT !.suffix = suffix]

ParentName(p) == IF p.dir = << >> THEN "" ELSE p.dir[Len(p.dir)]

\* the rowid sqlite gives a new row of an INTEGER PRIMARY KEY table
lastrowid(db) ==
    IF db.manuscripts = {} THEN 1 ELSE MaxOf({m.id : m \in db.manuscripts}) + 1

\* db.py upsert_manuscript: the changed database and the id returned.  author,
\* title and year are written beside ccel_url and are None for every file here
\* (METADATA has no entry, the trees carry no ThML.head).
upsert_manuscript(db, filename, ccel_url, category, source_format) ==
    LET row == {m \in db.manuscripts : m.filename = filename}
    IN  IF row # {}
        THEN LET old == CHOOSE m \in row : TRUE
             IN  [db |-> [db EXCEPT !.manuscripts =
                             (@ \ {old}) \cup {[old EXCEPT !.ccel_url = ccel_url,
                                                           !.category = category,
                                                           !.source_format = source_format]}],
                  id |-> old.id]
        ELSE [db |-> [db EXCEPT !.manuscripts =
                         @ \cup {[id |-> lastrowid(db), filename |-> filename,
                                  ccel_url |-> ccel_url, category |-> category,
                                  source_format |-> source_format]}],
              id |-> lastrowid(db)]

delete_refs_keeps_rows(db, manuscript_id) == db

delete_refs_of_every_manuscript(db, manuscript_id) == [db EXCEPT !.verse_refs = << >>]

\* db.py delete_refs_for_manuscript
delete_refs_for_manuscript(db, manuscript_id) ==
    [db EXCEPT !.verse_refs = SelectSeq(@, LAMBDA r : r.manuscript_id # manuscript_id)]

\* conn.execute("DELETE FROM manuscripts WHERE id = ?")
delete_manuscript(db, manuscript_id) ==
    [db EXCEPT !.manuscripts = {m \in @ : m.id # manuscript_id}]

\* conn.executemany("INSERT INTO verse_refs ...", rows)
executemany(db, found) == [db EXCEPT !.verse_refs = @ \o found]

\* the manuscript_id column of the row tuples: the id, or 0 in a dry run
WithManuscript(found, manuscript_id) ==
    [i \in 1..Len(found) |-> found[i] @@ [manuscript_id |-> manuscript_id]]

\* parser.py parse_file, lines 289-291: upsert, then delete the old rows
parse_file_prepare(db, dry_run, filename) ==
    IF dry_run THEN [db |-> db, id |-> 0]
    ELSE LET up == upsert_manuscript(db, filename, None, None, "txt")
         IN  [db |-> delete_refs_for_manuscript(up.db, up.id), id |-> up.id]

\* parser.py parse_file, lines 349-361: insert and commit when there are rows
parse_file_finish(db, dry_run, found) ==
    [db |-> IF ~dry_run /\ found # << >> THEN executemany(db, found) ELSE db,
     commit |-> ~dry_run /\ found # << >>,
     rows |-> found,
     count |-> Len(found)]

\* parser.py parse_file, lines 293-361, given what lines 289-291 left
parse_file_insert(prepared, dry_run, found) ==
    parse_file_finish(prepared.db, dry_run, WithManuscript(found, prepared.id))

\* parser.py parse_file as main calls it: the connection's database after the
\* call, whether it committed, the rows it built and the count it returned
parse_file(db, dry_run, p, content) ==
    parse_file_insert(parse_file_prepare(db, dry_run, PathName(p)), dry_run,
                      parse_file_rows(content))

\* parse_thml.py _load_xml: the root of the tree, or NoRoot (None) when
\* etree.parse raised
NoRoot == << >>

load_xml(content) == IF content.wellformed THEN content.tree ELSE NoRoot

save_clean_text_in_dry_run_too(written, dry_run, txt_path, clean_text) ==
    {f \in written : f.path # txt_path} \cup {[path |-> txt_path, text |-> clean_text]}

\* parse_thml.py parse_thml_file, lines 304-306: txt_path.write_text(clean_text)
save_clean_text(written, dry_run, txt_path, clean_text) ==
    IF dry_run THEN written
    ELSE {f \in written : f.path # txt_path} \cup {[path |-> txt_path, text |-> clean_text]}

\* parse_thml.py parse_thml_file, lines 308-324: conflict resolution by
\* ccel_url, upsert, then delete the old rows
thml_prepare(db, dry_run, rel_filename, ccel_url) ==
    IF dry_run THEN [db |-> db, id |-> 0]
    ELSE LET same_url == {m \in db.manuscripts : m.ccel_url = ccel_url}
             existing == CHOOSE m \in same_url : \A o \in same_url : m.id <= o.id
             resolved == IF same_url # {} /\ existing.source_format = "txt"
                         THEN delete_manuscript(delete_refs_for_manuscript(db, existing.id),
                                                existing.id)
                         ELSE db
             up == upsert_manuscript(resolved, rel_filename, ccel_url, "Other", "thml")
         IN  [db |-> delete_refs_for_manuscript(up.db, up.id), id |-> up.id]

\* parse_thml.py parse_thml_file, lines 362-374: insert and commit when there
\* are rows
thml_finish(db, dry_run, found, written) ==
    [db |-> IF ~dry_run /\ found # << >> THEN executemany(db, found) ELSE db,
     commit |-> ~dry_run /\ found # << >>,
     rows |-> found,
     count |-> Len(found),
     written |-> written]

\* lines 326-374, given what lines 308-324 left
thml_insert(prepared, dry_run, found, written) ==
    thml_finish(prepared.db, dry_run, WithManuscript(found, prepared.id), written)

\* lines 277-374, given the root, the builder after the walk and txt_path
thml_parse_tree(db, dry_run, xml_path, txt_path, root, b, written) ==
    thml_insert(thml_prepare(db, dry_run, txt_path,
                             [author_id |-> ParentName(xml_path), book_id |-> xml_path.stem]),
                dry_run,
                thml_rows(root, b),
                save_clean_text(written, dry_run, txt_path, builder_text(b)))

\* lines 274-374, given the root _load_xml returned
thml_of_root(db, dry_run, xml_path, root, written) ==
    IF root = NoRoot
    THEN [db |-> db, commit |-> FALSE, rows |-> << >>, count |-> 0, written |-> written]
    ELSE thml_parse_tree(db, dry_run, xml_path, with_suffix(xml_path, ".txt"), root,
                         walk(root), written)

\* parse_thml.py parse_thml_file as main calls it: the connection's database
\* after the call, whether it committed, the rows it built, the count it
\* returned and the companion files on disk
parse_thml_file(db, dry_run, xml_path, content, written) ==
    thml_of_root(db, dry_run, xml_path, load_xml(content), written)

(***************************************************************************)
(* The runs of main of parser.py and of parse_thml.py over a store.  A run *)
(* opens a connection, calls the handler on each path and closes the       *)
(* connection; sqlite commits what a handler commits, and close discards   *)
(* what was executed after the last commit.  Between runs a file's content *)
(* may change.                                                             *)
(***************************************************************************)

MaxRunFiles == 2

MaxRuns == 2

TRACT == [dir |-> <<"manuscripts">>, stem |-> "tract", suffix |-> ".txt"]

HOMILY == [dir |-> <<"manuscripts">>, stem |-> "homily", suffix |-> ".txt"]

IMIT == [dir |-> <<"ccel_thml", "kempis">>, stem |-> "imit", suffix |-> ".xml"]

PlainPaths == {TRACT, HOMILY}

XmlPaths == {IMIT}

PlainContents ==
    {<<"J","n"," ","3",":","1","6"," ","R","o"," ","8",":","1">>,
     <<"N","o","n","e",".">>}

\* <div><p>None.</p></div>
NoCitationsDocument ==
    <<Element("div", << >>, << >>, 0, << >>),
      Element("p", <<"N","o","n","e",".">>, << >>, 1, << >>)>>

\* <div><p>See <scripRef parsed="x|John|3|16|3|16;x|Gen|1|1|1|3">Jn 3:16
\* </scripRef>.</p></div>
CitingDocument ==
    <<Element("div", << >>, << >>, 0, << >>),
      Element("p", <<"S","e","e"," ">>, << >>, 1, << >>),
      Element("scripRef", <<"J","n"," ","3",":","1","6">>, <<".">>, 2,
              <<"x","|","J","o","h","n","|","3","|","1","6","|","3","|","1","6",";",
                "x","|","G","e","n","|","1","|","1","|","1","|","3">>)>>

XmlContents ==
    {[wellformed |-> TRUE, tree |-> CitingDocument],
     [wellformed |-> TRUE, tree |-> NoCitationsDocument],
     [wellformed |-> FALSE, tree |-> << >>]}

ContentsOf(p) == IF p \in PlainPaths THEN PlainContents ELSE XmlContents

\* the filename column a path is stored under
FilenameOf(p) == IF p \in PlainPaths THEN PathName(p) ELSE with_suffix(p, ".txt")

Filenames == {FilenameOf(p) : p \in PlainPaths \cup XmlPaths}

NotParsed == [parsed |-> FALSE, rows |-> << >>, content |-> << >>]

InitStore ==
    /\ registry = Registry
    /\ \E tract \in PlainContents, homily \in PlainContents, imit \in XmlContents :
        files = [p \in PlainPaths \cup XmlPaths |->
                    IF p = TRACT THEN tract ELSE IF p = HOMILY THEN homily ELSE imit]
    /\ companions = {}
    /\ store = EmptyStore
    /\ conn = None
    /\ run = None
    /\ latest = [fn \in Filenames |-> NotParsed]
    /\ started = 0
    /\ arg = None
    /\ returned = NoInt
    /\ rows = << >>
    /\ pc = "closed"
    /\ text = None /\ citation_offset = None /\ bounds = None /\ passage = None
    /\ path = None /\ raw_book = None /\ book = None
    /\ payload = None /\ matches = None
    /\ tree = None /\ builder = None /\ stack = None

store_frame == <<text, passage_vars, path, raw_book, book, registry, payload, matches, walk_vars>>

\* main, up to the loop: create_schema(), conn = get_connection(), the paths
\* of the command line
MainOpen ==
    /\ pc = "closed" /\ started < MaxRuns
    /\ \E program \in {"parser", "parse_thml"}, dry_run \in BOOLEAN :
        \E paths \in UNION {[1..k -> IF program = "parser" THEN PlainPaths ELSE XmlPaths] :
                              k \in 1..MaxRunFiles} :
            run' = [program |-> program, dry_run |-> dry_run, paths |-> paths, parsed |-> << >>]
    /\ conn' = store
    /\ started' = started + 1
    /\ pc' = "open"
    /\ UNCHANGED <<files, companions, store, latest, arg, returned, rows, store_frame>>

\* what one pass of either loop leaves, given the call's result
Returning(p, filename, parsed, call) ==
    /\ conn' = call.db
    /\ store' = IF call.commit THEN call.db ELSE store
    /\ rows' = call.rows
    /\ returned' = Some(call.count)
    /\ arg' = [path |-> p, content |-> files[p], dry_run |-> run.dry_run]
    /\ latest' = IF run.dry_run \/ ~parsed THEN latest
                 ELSE [latest EXCEPT ![filename] =
                         [parsed |-> TRUE, rows |-> call.rows, content |-> files[p]]]
    /\ run' = [run EXCEPT !.paths = Tail(@), !.parsed = Append(@, p)]

\* parser.py main, one pass of the loop: parse_file(path, conn, dry_run)
MainParseFile ==
    /\ pc = "open" /\ run.program = "parser" /\ run.paths # << >>
    /\ Returning(Head(run.paths), PathName(Head(run.paths)), TRUE,
                 parse_file(conn, run.dry_run, Head(run.paths), files[Head(run.paths)]))
    /\ UNCHANGED <<files, companions, started, pc, store_frame>>

\* what one pass of parse_thml.py's loop leaves, given the call's result
ReturningThml(p, call) ==
    /\ Returning(p, with_suffix(p, ".txt"), load_xml(files[p]) # NoRoot, call)
    /\ companions' = call.written

\* parse_thml.py main, one pass of the loop: parse_thml_file(path, conn, dry_run)
MainParseThmlFile ==
    /\ pc = "open" /\ run.program = "parse_thml" /\ run.paths # << >>
    /\ ReturningThml(Head(run.paths),
                     parse_thml_file(conn, run.dry_run, Head(run.paths),
                                     files[Head(run.paths)], companions))
    /\ UNCHANGED <<files, started, pc, store_frame>>

\* main, after the loop: conn.close(), and the process ends
MainClose ==
    /\ pc = "open" /\ run.paths = << >>
    /\ conn' = None
    /\ run' = None
    /\ arg' = None
    /\ returned' = NoInt
    /\ rows' = << >>
    /\ pc' = "closed"
    /\ UNCHANGED <<files, companions, store, latest, started, store_frame>>

\* between two runs, a source file is replaced by another version of it
EditFile ==
    /\ pc = "closed"
    /\ \E p \in DOMAIN files : \E content \in ContentsOf(p) \ {files[p]} :
        files' = [files EXCEPT ![p] = content]
    /\ UNCHANGED <<companions, store, conn, run, latest, started, arg, returned, rows, pc, store_frame>>

NextStore == MainOpen \/ MainParseFile \/ MainParseThmlFile \/ MainClose \/ EditFile

SpecStore == InitStore /\ [][NextStore]_vars


(***************************************************************************)
(* Properties of the runs over the store.                                  *)
(***************************************************************************)

\* the manuscripts rows stored under a filename, and their verse_refs rows
ManuscriptsOf(db, filename) == {m \in db.manuscripts : m.filename = filename}

RefsOf(db, filename) ==
    SelectSeq(db.verse_refs,
              LAMBDA r : \E m \in ManuscriptsOf(db, filename) : r.manuscript_id = m.id)

\* this step is one pass of main's loop: a call of the handler on the next path
ParseStep == pc = "open" /\ pc' = "open" /\ run.paths # << >>

\* C21: when the source cannot be parsed into a tree, parse_thml_file builds
\* no record and what it returns to its caller differs from what it returns
\* for a well-formed document that contains no citation
C21_FailureSurfaced ==
    (pc = "open" /\ run.program = "parse_thml" /\ arg # None /\ ~arg.content.wellformed) =>
        /\ rows = << >>
        /\ returned # Some(parse_thml_file(EmptyStore, arg.dry_run, arg.path,
                                           [wellformed |-> TRUE, tree |-> NoCitationsDocument],
                                           {}).count)

\* C25: when a document that was parsed before and has not changed since is
\* parsed again (not a dry run), the connection then sees exactly one
\* manuscripts row for its filename and, as its verse_refs rows, exactly the
\* rows of the single earlier parse, none of them twice; when there are such
\* rows they are the committed ones too
C25_ReparseNotDoubled ==
    [][\A p \in PlainPaths \cup XmlPaths :
        (/\ ParseStep /\ ~run.dry_run /\ Head(run.paths) = p
         /\ latest[FilenameOf(p)].parsed
         /\ latest[FilenameOf(p)].content = files[p])
        => /\ Cardinality(ManuscriptsOf(conn', FilenameOf(p))) = 1
           /\ RefsOf(conn', FilenameOf(p)) = latest[FilenameOf(p)].rows
           /\ rows' = latest[FilenameOf(p)].rows
           /\ rows' # << >> => RefsOf(store', FilenameOf(p)) = rows']_vars

\* the same document was parsed twice in one run and has rows
C25_Witness ==
    /\ pc = "open" /\ ~run.dry_run
    /\ Len(run.parsed) = 2 /\ run.parsed[1] = run.parsed[2]
    /\ Len(rows) = 2
    /\ RefsOf(conn, FilenameOf(run.parsed[2])) = rows
    /\ RefsOf(store, FilenameOf(run.parsed[2])) = rows

\* C26: once a run has ended and its connection is closed, the committed
\* verse_refs rows of every document a run has parsed (not a dry run) are
\* exactly the rows its latest parse built
C26_LatestParseCommitted ==
    pc = "closed" =>
        \A fn \in Filenames : latest[fn].parsed => RefsOf(store, fn) = latest[fn].rows

\* what the handler returns when it runs on the next path, dry or not
CountReturned(dry_run) ==
    IF run.program = "parser"
    THEN parse_file(conn, dry_run, Head(run.paths), files[Head(run.paths)]).count
    ELSE parse_thml_file(conn, dry_run, Head(run.paths), files[Head(run.paths)],
                         companions).count

\* C27: no step of a dry run changes the committed database, what the
\* connection sees, or the companion files, and each call of a handler in a
\* dry run returns the count the call returns without --dry-run
C27_DryRunChangesNothing ==
    [][(ParseStep /\ run.dry_run) =>
          /\ store' = store
          /\ conn' = conn
          /\ companions' = companions
          /\ returned' = Some(CountReturned(FALSE))]_vars

\* a dry run counted two citations of a document the store holds no row of
C27_Witness ==
    /\ pc = "open" /\ run.dry_run /\ arg # None
    /\ returned = Some(2)
    /\ store.verse_refs # << >>
    /\ RefsOf(store, FilenameOf(arg.path)) = << >>
    /\ conn = store

=============================================================================
